---- MODULE Spec2Model ----
(***************************************************************************)
(* Model of the risk-map core of MVPNuvaface: the Safety Validator         *)
(* (services/coordinate_mapper.py), the Rule Interpreter                   *)
(* (models/rules_engine.py), the analysis endpoint and application startup *)
(* (app.py), the Knowledge Store (services/knowledge_loader.py), and the   *)
(* retry decision of the quality controller (engine/qc.py).                *)
(*                                                                         *)
(* Numbers.  Pixel coordinates are integers.  A distance d is never        *)
(* computed: every comparison "d < m" of the code is made on squares,      *)
(* d*d < m*m, and a point-to-segment distance is the exact rational        *)
(* num/den of its square.  A confidence c is the integer c*ConfUnit, so    *)
(* that "*= 0.5" stays exact (as it is in binary floating point).          *)
(*                                                                         *)
(* Objects.  InjectionPoint objects live in the heap `points` (label ->    *)
(* fields); a Python list of points is a sequence of labels, so that the   *)
(* in-place updates of validate_injection_safety are visible through every *)
(* list that holds the object.                                             *)
(***************************************************************************)
EXTENDS Integers, Sequences, FiniteSets, TLC

VARIABLES
    op,                 \* the operation this behaviour exercises
    area,               \* argument `area` of validate_injection_safety
    points,             \* heap of InjectionPoint objects: label -> fields
    before,             \* the heap as it was when the last call started
    injection_points,   \* argument list of the first (ncalls = 0) or of the last call
    risk_zones,         \* argument `risk_zones` (validator) / input of the zone filter
    accepted,           \* local validated_points of the last call when its loop ended
    validated_points,   \* list returned by the last validate_injection_safety call
    filtered_zones,     \* list returned by filter_overlapping_zones
    definitions,        \* rule documents given to the rules engine
    normalized_face,    \* NormalizedFace given to the rules engine
    image_shape,        \* image_shape given to the rules engine
    produced,           \* what apply_*_rules returned, or that it raised
    request,            \* the analysis request and what its image yields
    response,           \* what analyze_risk_map answered
    calls,              \* Safety Validator methods the handler called
    scored_analysis,    \* landmarks_result and normalized_face of an analysis being scored
    confidence_scores,  \* the calls of _calculate_confidence_score made for it
    qc_results,         \* the qc_results given to should_retry
    retry_decision,     \* what should_retry returned
    scale_input,        \* template_points and image_shape given to scale_template_to_image
    scaled_template,    \* what scale_template_to_image returned, or that it raised
    disk,               \* the knowledge base directory: area -> what is on disk
    knowledge_cache,    \* KnowledgeLoader.knowledge_cache
    area_knowledge_cache, \* KnowledgeLoader.area_knowledge_cache
    fallback_templates, \* KnowledgeLoader.fallback_templates
    startup,            \* how far application startup has come
    now,                \* the clock, whole seconds
    served,             \* analysis requests served so far
    ncalls              \* calls made so far in this behaviour

vars == <<op, area, points, before, injection_points, risk_zones,
          accepted, validated_points, filtered_zones,
          definitions, normalized_face, image_shape, produced,
          request, response, calls,
          scored_analysis, confidence_scores, qc_results, retry_decision,
          scale_input, scaled_template,
          disk, knowledge_cache, area_knowledge_cache, fallback_templates,
          startup, now, served, ncalls>>

\* The variables of the Safety Validator and those of the Rule Interpreter.
validator_vars == <<area, points, before, injection_points, risk_zones,
                    accepted, validated_points, filtered_zones>>
rules_vars == <<definitions, normalized_face, image_shape, produced>>
handler_vars == <<request, response, calls>>
score_vars == <<scored_analysis, confidence_scores>>
qc_vars == <<qc_results, retry_decision>>
scale_vars == <<scale_input, scaled_template>>
store_vars == <<disk, knowledge_cache, area_knowledge_cache, fallback_templates,
                startup, now, served>>

----------------------------------------------------------------------------
(* Bounds of the model *)

MaxCandidates == 7
MaxCalls == 2
MaxZones == 3
MaxDocs == 3

----------------------------------------------------------------------------
(* Generic helpers *)

Range(s) == { s[i] : i \in 1..Len(s) }

Sq(n) == n * n

Point(px, py) == [x |-> px, y |-> py]

----------------------------------------------------------------------------
(* CoordinateMapper.__init__ : the two policy tables *)

\* The unit of a confidence: 1.0 is ConfUnit.
ConfUnit == 2 ^ 6

Severities == {"critical", "high", "moderate", "low"}

\* self.min_distance_to_danger, pixels
min_distance_to_danger ==
    [s \in Severities |->
        CASE s = "high" -> 15
          [] s = "critical" -> 20
          [] s = "moderate" -> 8
          [] s = "low" -> 0]

\* .get(zone.severity, 10.0)
DefaultDangerDistance == 10

SupportedAreas == {"lips", "cheeks", "chin", "forehead"}

\* self.safety_rules
safety_rules ==
    [a \in SupportedAreas |->
        CASE a = "lips"     -> [max_points |-> 8,  min_point_distance |-> 5,  boundary_buffer |-> 3]
          [] a = "cheeks"   -> [max_points |-> 10, min_point_distance |-> 8,  boundary_buffer |-> 5]
          [] a = "chin"     -> [max_points |-> 6,  min_point_distance |-> 10, boundary_buffer |-> 5]
          [] a = "forehead" -> [max_points |-> 8,  min_point_distance |-> 12, boundary_buffer |-> 8]]

\* self.safety_rules.get(area, self.safety_rules["lips"])
area_rules(a) == IF a \in SupportedAreas THEN safety_rules[a] ELSE safety_rules["lips"]

\* A plausible slip: a severity the table does not have is taken as low.
min_distance_for_low_default(severity) ==
    IF severity \in Severities THEN min_distance_to_danger[severity]
    ELSE min_distance_to_danger["low"]

\* self.min_distance_to_danger.get(zone.severity, 10.0)
min_distance_for(severity) ==
    IF severity \in Severities THEN min_distance_to_danger[severity]
    ELSE DefaultDangerDistance

----------------------------------------------------------------------------
(* Distances, on squares *)

\* _point_distance(p1, p2) squared
_point_distance_sq(p1, p2) == Sq(p1.x - p2.x) + Sq(p1.y - p2.y)

\* _point_to_line_segment_distance(point, line_start, line_end) squared, as the
\* exact rational num/den (den > 0): projection parameter t clamped to [0, 1].
_point_to_line_segment_distance_sq(point, line_start, line_end) ==
    LET dx   == line_end.x - line_start.x
        dy   == line_end.y - line_start.y
        len2 == dx * dx + dy * dy
        dot  == (point.x - line_start.x) * dx + (point.y - line_start.y) * dy
        crs  == (point.x - line_start.x) * dy - (point.y - line_start.y) * dx
    IN  IF dx = 0 /\ dy = 0
          THEN [num |-> _point_distance_sq(point, line_start), den |-> 1]
        ELSE IF dot <= 0                       \* t clamped to 0
          THEN [num |-> _point_distance_sq(point, line_start), den |-> 1]
        ELSE IF dot >= len2                    \* t clamped to 1
          THEN [num |-> _point_distance_sq(point, line_end), den |-> 1]
        ELSE [num |-> crs * crs, den |-> len2]

\* A plausible slip: a point at exactly min_distance is flagged too.
_point_to_polygon_distance_le(point, polygon, min_distance) ==
    IF Len(polygon) < 3 THEN FALSE
    ELSE \E i \in 1..Len(polygon) :
            LET p1 == polygon[i]
                p2 == polygon[(i % Len(polygon)) + 1]
                d  == _point_to_line_segment_distance_sq(point, p1, p2)
            IN  d.num <= Sq(min_distance) * d.den

\* _point_to_polygon_distance(point, polygon) < min_distance.
\* A polygon of fewer than 3 vertices is at distance inf.
_point_to_polygon_distance_lt(point, polygon, min_distance) ==
    IF Len(polygon) < 3 THEN FALSE
    ELSE \E i \in 1..Len(polygon) :
            LET p1 == polygon[i]
                p2 == polygon[(i % Len(polygon)) + 1]
                d  == _point_to_line_segment_distance_sq(point, p1, p2)
            IN  d.num < Sq(min_distance) * d.den

\* The message _check_danger_zone_distance appends for a zone
\* (f"Too close to {zone.name} (...px < ...px required)").
violation_msg(zone) ==
    [msg |-> "Too close to", zone |-> zone.name, required |-> min_distance_for(zone.severity)]

RECURSIVE violations_from(_, _, _)
violations_from(position, zones, i) ==
    IF i > Len(zones) THEN <<>>
    ELSE LET zone == zones[i]
             hit  == _point_to_polygon_distance_lt(position, zone.polygon,
                                                   min_distance_for(zone.severity))
         IN  (IF hit THEN <<violation_msg(zone)>> ELSE <<>>)
             \o violations_from(position, zones, i + 1)

\* _check_danger_zone_distance(point, risk_zones): the list `violations`
\* (is_safe is len(violations) == 0).
_check_danger_zone_distance(point, zones) == violations_from(point.position, zones, 1)

\* A plausible slip: only the first existing point is examined.
_check_point_spacing_first_only(new_point, existing_points, min_distance) ==
    \/ Len(existing_points) = 0
    \/ ~ (_point_distance_sq(new_point.position, existing_points[1].position)
            < Sq(min_distance))

\* _check_point_spacing(new_point, existing_points, min_distance)
_check_point_spacing(new_point, existing_points, min_distance) ==
    \A i \in 1..Len(existing_points) :
        ~ (_point_distance_sq(new_point.position, existing_points[i].position)
             < Sq(min_distance))

\* The records of a list of labels.
objects(lst, heap) == [i \in 1..Len(lst) |-> heap[lst[i]]]

\* A plausible slip: the confidence is halved once for every violation.
demote_per_violation(heap, l, violations) ==
    IF Len(violations) = 0 THEN heap
    ELSE [heap EXCEPT ![l].warnings = @ \o violations,
                      ![l].confidence = @ \div (2 ^ Len(violations))]

\* A plausible slip: the warnings are added, the confidence is left alone.
demote_warnings_only(heap, l, violations) ==
    IF Len(violations) = 0 THEN heap
    ELSE [heap EXCEPT ![l].warnings = @ \o violations]

\* "if not is_safe:" of validate_injection_safety, in place on object l:
\* point.warnings.extend(violations); point.confidence *= 0.5
demote(heap, l, violations) ==
    IF Len(violations) = 0 THEN heap
    ELSE [heap EXCEPT ![l].warnings = @ \o violations,
                      ![l].confidence = @ \div 2]

\* A plausible slip: a point that violates a clearance is removed.
spacing_step_safe_only(validated, heap, l, violations, min_distance) ==
    IF /\ Len(violations) = 0
       /\ _check_point_spacing(heap[l], objects(validated, heap), min_distance)
      THEN Append(validated, l)
      ELSE validated

\* "Check minimum distance to other points" of validate_injection_safety:
\* the point is appended to validated_points or left out, whatever its
\* violations.
spacing_step(validated, heap, l, violations, min_distance) ==
    IF _check_point_spacing(heap[l], objects(validated, heap), min_distance)
      THEN Append(validated, l)
      ELSE validated

\* The loop of validate_injection_safety over the argument list from index i:
\* heap is the heap so far, validated the list validated_points so far.
RECURSIVE validate_loop(_, _, _, _, _, _)
validate_loop(lst, i, heap, validated, zones, rules) ==
    IF i > Len(lst) THEN [heap |-> heap, validated |-> validated]
    ELSE LET l          == lst[i]
             violations == _check_danger_zone_distance(heap[l], zones)
             heap1      == demote(heap, l, violations)
         IN  validate_loop(lst, i + 1, heap1,
                           spacing_step(validated, heap1, l, violations,
                                        rules.min_point_distance),
                           zones, rules)

\* list.sort(key=lambda p: p.confidence, reverse=True): stable, so points of
\* equal confidence keep their order.
RECURSIVE sort_by_confidence_desc(_, _)
sort_by_confidence_desc(lst, heap) ==
    IF Len(lst) = 0 THEN <<>>
    ELSE LET best == CHOOSE i \in 1..Len(lst) :
                        /\ \A j \in 1..Len(lst) : heap[lst[j]].confidence <= heap[lst[i]].confidence
                        /\ \A j \in 1..(i - 1) : heap[lst[j]].confidence < heap[lst[i]].confidence
             rest == [j \in 1..(Len(lst) - 1) |-> IF j < best THEN lst[j] ELSE lst[j + 1]]
         IN  <<lst[best]>> \o sort_by_confidence_desc(rest, heap)

\* A plausible slip: the list is cut without being sorted.
apply_max_points_unsorted(validated, heap, max_points) ==
    IF Len(validated) > max_points
      THEN SubSeq(validated, 1, max_points)
      ELSE validated

\* "Apply maximum point limit" of validate_injection_safety
apply_max_points(validated, heap, max_points) ==
    IF Len(validated) > max_points
      THEN SubSeq(sort_by_confidence_desc(validated, heap), 1, max_points)
      ELSE validated

\* validate_injection_safety(injection_points, risk_zones, area):
\* the returned list, the heap after the in-place updates, and the list
\* validated_points as the loop left it.
validate_injection_safety(lst, zones, a, heap) ==
    IF Len(lst) = 0 THEN [heap |-> heap, accepted |-> <<>>, validated |-> <<>>]
    ELSE LET rules == area_rules(a)
             r     == validate_loop(lst, 1, heap, <<>>, zones, rules)
         IN  [heap |-> r.heap,
              accepted |-> r.validated,
              validated |-> apply_max_points(r.validated, r.heap, rules.max_points)]

----------------------------------------------------------------------------
(* Inputs of the Safety Validator *)

Labels == <<"P1", "P2", "P3", "P4", "P5", "P6", "P7", "P8", "P9", "P10">>

\* Candidate k sits on a row, 20 px from its neighbours ("own"), or 6 px to
\* the right of its left neighbour's place ("near").
SlotPosition(k, place) ==
    IF place = "own" THEN Point(20 * k, 30) ELSE Point(20 * (k - 1) + 6, 30)

SlotChoices == { [place |-> "own",  confidence |-> ConfUnit],
                 [place |-> "own",  confidence |-> ConfUnit \div 2],
                 [place |-> "near", confidence |-> ConfUnit] }

\* A warning a rule document may carry (point_def.get("warnings", [])).
AuthoredWarning == [msg |-> "Aspirate before injecting", zone |-> "", required |-> 0]

Square(x1, y1, x2, y2) == << Point(x1, y1), Point(x2, y1), Point(x2, y2), Point(x1, y2) >>

Zone(n, poly, sev) == [name |-> n, polygon |-> poly, severity |-> sev]

\* (area, risk zones) pairs the validator is called with.  Only the cap of
\* chin (6) is within reach of MaxCandidates: the other areas get `fewer`
\* candidates less.
ValidatorScenarios ==
    { [area |-> "chin", fewer |-> 0, zones |->
         << Zone("labial_artery", Square(50, 45, 70, 65), "critical") >>],
      [area |-> "lips", fewer |-> 3, zones |->
         << Zone("labial_artery", Square(50, 45, 70, 65), "high"),
            Zone("mental_foramen", << Point(92, 35), Point(112, 37), Point(100, 60) >>, "moderate"),
            Zone("vermillion", Square(0, 0, 200, 60), "low") >>],
      [area |-> "cheeks", fewer |-> 3, zones |-> << >>],
      [area |-> "forehead", fewer |-> 3, zones |->
         << Zone("supratrochlear", Square(30, 40, 50, 60), "critical"),
            Zone("supraorbital", Square(35, 42, 90, 60), "high") >>],
      \* a zone around the whole row, a zone of two vertices through the row,
      \* and a low zone whose edges pass through two places of the row
      \* an area and a severity the policy tables have no entry for
      [area |-> "nose", fewer |-> 0, zones |->
         << Zone("dorsal_nasal", Square(50, 38, 70, 58), "severe") >>],
      [area |-> "lips", fewer |-> 3, zones |->
         << Zone("facial_artery", Square(-25, 5, 125, 55), "critical"),
            Zone("nasal_branch", << Point(0, 30), Point(100, 30) >>, "high"),
            Zone("vermillion_border", Square(20, 10, 60, 50), "low") >>] }

\* The endpoint is not part of this behaviour.
NoRequest ==
    /\ request = <<>>
    /\ response = <<>>
    /\ calls = <<>>

\* No score is computed apart from a request in this behaviour.
NoScoreInput ==
    /\ scored_analysis = <<>>
    /\ confidence_scores = <<>>

\* The quality controller is not part of this behaviour.
NoQualityInput ==
    /\ qc_results = <<>>
    /\ retry_decision = <<>>

\* scale_template_to_image is not called on its own in this behaviour.
NoScaleInput ==
    /\ scale_input = <<>>
    /\ scaled_template = <<>>

\* The knowledge loader is not part of this behaviour.
NoStore ==
    /\ disk = <<>>
    /\ knowledge_cache = <<>>
    /\ area_knowledge_cache = <<>>
    /\ fallback_templates = <<>>
    /\ startup = "none"
    /\ now = 0
    /\ served = 0

\* The rules engine is not part of this behaviour.
NoRulesInput ==
    /\ definitions = <<>>
    /\ normalized_face = <<>>
    /\ image_shape = <<>>
    /\ produced = <<>>

InitValidator ==
    /\ op = "validate"
    /\ \E sc \in ValidatorScenarios :
       \E n \in 0..(MaxCandidates - sc.fewer) :
       \E choice \in [1..n -> SlotChoices] :
          /\ area = sc.area
          /\ risk_zones = sc.zones
          /\ injection_points = [k \in 1..n |-> Labels[k]]
          /\ points = [l \in { Labels[k] : k \in 1..n } |->
                         LET k == CHOOSE k \in 1..n : Labels[k] = l
                         IN  [label |-> l,
                              position |-> SlotPosition(k, choice[k].place),
                              confidence |-> choice[k].confidence,
                              warnings |-> IF k = 1 THEN <<AuthoredWarning>> ELSE <<>>]]
    /\ before = points
    /\ accepted = <<>>
    /\ validated_points = <<>>
    /\ filtered_zones = <<>>
    /\ NoRulesInput
    /\ NoRequest
    /\ NoScoreInput
    /\ NoQualityInput
    /\ NoStore
    /\ NoScaleInput
    /\ ncalls = 0

\* A call of validate_injection_safety: the first on the candidates, a later
\* one on the list the previous call returned (app.py:184 assigns the result
\* to the variable it passed).
ValidateInjectionSafety ==
    /\ op = "validate"
    /\ ncalls < MaxCalls
    /\ LET arg == IF ncalls = 0 THEN injection_points ELSE validated_points
           r   == validate_injection_safety(arg, risk_zones, area, points)
       IN  /\ injection_points' = arg
           /\ before' = points
           /\ points' = r.heap
           /\ accepted' = r.accepted
           /\ validated_points' = r.validated
    /\ ncalls' = ncalls + 1
    /\ UNCHANGED <<op, area, risk_zones, filtered_zones>>
    /\ UNCHANGED rules_vars
    /\ UNCHANGED handler_vars
    /\ UNCHANGED <<score_vars, qc_vars, scale_vars, store_vars>>

----------------------------------------------------------------------------
(* Zone de-duplication: CoordinateMapper.filter_overlapping_zones *)

Min(a, b) == IF a <= b THEN a ELSE b
Max(a, b) == IF a >= b THEN a ELSE b

MinOf(S) == CHOOSE m \in S : \A n \in S : m <= n
MaxOf(S) == CHOOSE m \in S : \A n \in S : m >= n

\* _get_polygon_bbox(polygon)
_get_polygon_bbox(polygon) ==
    IF Len(polygon) = 0 THEN [x |-> 0, y |-> 0, width |-> 0, height |-> 0]
    ELSE LET xs == { polygon[i].x : i \in 1..Len(polygon) }
             ys == { polygon[i].y : i \in 1..Len(polygon) }
         IN  [x |-> MinOf(xs), y |-> MinOf(ys),
              width |-> MaxOf(xs) - MinOf(xs), height |-> MaxOf(ys) - MinOf(ys)]

\* _zones_overlap_significantly(zone1, zone2, threshold=0.5):
\* intersect_area / smaller_area > 0.5, smaller_area > 0 once the boxes intersect.
_zones_overlap_significantly(zone1, zone2) ==
    LET bbox1 == _get_polygon_bbox(zone1.polygon)
        bbox2 == _get_polygon_bbox(zone2.polygon)
        intersect_x1 == Max(bbox1.x, bbox2.x)
        intersect_y1 == Max(bbox1.y, bbox2.y)
        intersect_x2 == Min(bbox1.x + bbox1.width, bbox2.x + bbox2.width)
        intersect_y2 == Min(bbox1.y + bbox1.height, bbox2.y + bbox2.height)
        intersect_area == (intersect_x2 - intersect_x1) * (intersect_y2 - intersect_y1)
        area1 == bbox1.width * bbox1.height
        area2 == bbox2.width * bbox2.height
        smaller_area == Min(area1, area2)
    IN  IF intersect_x1 >= intersect_x2 \/ intersect_y1 >= intersect_y2
          THEN FALSE
          ELSE 2 * intersect_area > smaller_area

\* severity_order.get(z.severity, 3)
severity_order(severity) ==
    CASE severity = "critical" -> 0
      [] severity = "high"     -> 1
      [] severity = "moderate" -> 2
      [] OTHER                 -> 3

\* A plausible slip: the zones are taken in the order given.
sort_by_severity_unsorted(zones) == zones

\* sorted(risk_zones, key=lambda z: severity_order.get(z.severity, 3)): stable.
RECURSIVE sort_by_severity(_)
sort_by_severity(zones) ==
    IF Len(zones) = 0 THEN <<>>
    ELSE LET first == CHOOSE i \in 1..Len(zones) :
                        /\ \A j \in 1..Len(zones) :
                              severity_order(zones[i].severity) <= severity_order(zones[j].severity)
                        /\ \A j \in 1..(i - 1) :
                              severity_order(zones[i].severity) < severity_order(zones[j].severity)
             rest  == [j \in 1..(Len(zones) - 1) |-> IF j < first THEN zones[j] ELSE zones[j + 1]]
         IN  <<zones[first]>> \o sort_by_severity(rest)

\* A plausible slip: the zone is compared with the last kept zone only.
overlaps_last_kept(zone, filtered) ==
    Len(filtered) > 0 /\ _zones_overlap_significantly(zone, filtered[Len(filtered)])

\* The inner loop "for existing_zone in filtered_zones": overlaps_significantly
overlaps_significantly_with(zone, filtered) ==
    \E k \in 1..Len(filtered) : _zones_overlap_significantly(zone, filtered[k])

\* The loop "for zone in sorted_zones" from index i, filtered the list so far.
RECURSIVE filter_loop(_, _, _)
filter_loop(sorted_zones, i, filtered) ==
    IF i > Len(sorted_zones) THEN filtered
    ELSE LET zone == sorted_zones[i]
         IN  filter_loop(sorted_zones, i + 1,
                         IF overlaps_significantly_with(zone, filtered)
                         THEN filtered ELSE Append(filtered, zone))

\* filter_overlapping_zones(risk_zones)
filter_overlapping_zones(zones) ==
    IF Len(zones) <= 1 THEN zones
    ELSE filter_loop(sort_by_severity(zones), 1, <<>>)

\* Zone shapes the filter is given: a square, a triangle inside it, and two
\* squares shifted to the right, each overlapping its left neighbour only.
ZoneShapes ==
    [ facial_artery   |-> Square(0, 0, 10, 10),
      angular_branch  |-> << Point(2, 2), Point(8, 2), Point(5, 8) >>,
      infraorbital    |-> Square(4, 0, 14, 10),
      zygomatic_nerve |-> Square(8, 0, 18, 10) ]

ZoneNames == DOMAIN ZoneShapes

\* Lists of up to MaxZones zones, no shape twice, any severities:
\* RiskZone.severity is any string (schemas.py:71), here the four of the
\* tables and one they do not have.
ZoneLists ==
    UNION { { [i \in 1..n |-> Zone(names[i], ZoneShapes[names[i]], sevs[i])] :
                names \in { f \in [1..n -> ZoneNames] : \A i, j \in 1..n : i # j => f[i] # f[j] },
                sevs \in [1..n -> Severities \cup {"severe"}] } :
            n \in 0..Min(MaxZones, Cardinality(ZoneNames)) }

InitFilter ==
    /\ op = "filter"
    /\ risk_zones \in ZoneLists
    /\ filtered_zones = <<>>
    /\ area = "none"
    /\ points = <<>>
    /\ before = <<>>
    /\ injection_points = <<>>
    /\ accepted = <<>>
    /\ validated_points = <<>>
    /\ NoRulesInput
    /\ NoRequest
    /\ NoScoreInput
    /\ NoQualityInput
    /\ NoStore
    /\ NoScaleInput
    /\ ncalls = 0

\* A call of filter_overlapping_zones: the first on the given list, a later
\* one on the list the call before it returned.
FilterOverlappingZones ==
    /\ op = "filter"
    /\ ncalls < MaxCalls
    /\ risk_zones' = IF ncalls = 0 THEN risk_zones ELSE filtered_zones
    /\ filtered_zones' = filter_overlapping_zones(risk_zones')
    /\ ncalls' = ncalls + 1
    /\ UNCHANGED <<op, area, points, before, injection_points,
                   accepted, validated_points>>
    /\ UNCHANGED rules_vars
    /\ UNCHANGED handler_vars
    /\ UNCHANGED <<score_vars, qc_vars, scale_vars, store_vars>>

----------------------------------------------------------------------------
\* Rule Interpreter (models/rules_engine.py).  Coordinates are whole pixels,
\* normalized coordinates, offsets and face confidence are in thousandths,
\* and a quotient is the integer quotient.

\* What a rule function returns: None, one Point, or a list of Points.
None == [kind |-> "None", pts |-> <<>>]
APoint(p) == [kind |-> "Point", pts |-> <<p>>]
AList(ps) == [kind |-> "list", pts |-> ps]

\* dict.get(key, default)
Get(d, key, default) == IF key \in DOMAIN d THEN d[key] ELSE default

RECURSIVE SumSeq(_)
SumSeq(s) == IF s = <<>> THEN 0 ELSE Head(s) + SumSeq(Tail(s))

RECURSIVE Flatten(_)
Flatten(ss) == IF ss = <<>> THEN <<>> ELSE Head(ss) \o Flatten(Tail(ss))

\* math.sqrt, to the whole pixel below.
RECURSIVE ISqrtFrom(_, _)
ISqrtFrom(n, r) == IF (r + 1) * (r + 1) > n THEN r ELSE ISqrtFrom(n, r + 1)
ISqrt(n) == ISqrtFrom(n, 0)

\* 1000 * cos(2 pi i / 16) and 1000 * sin(2 pi i / 16) for i = 0..15.
cos16 == << 1000, 924, 707, 383, 0, -383, -707, -924,
            -1000, -924, -707, -383, 0, 383, 707, 924 >>
sin16 == [i \in 1..16 |-> cos16[((i + 11) % 16) + 1]]

supported_rule_types ==
    { "landmark_vector_offset", "polyline_buffer_from_landmarks",
      "circle_around_landmark", "ellipse_around_landmarks",
      "polygon_from_landmarks", "bone_point", "mask_from_landmark_loop" }

landmark_mapping ==
    [ left_eye_inner |-> 133, left_eye_outer |-> 33,
      right_eye_inner |-> 362, right_eye_outer |-> 263,
      nose_tip |-> 1, nose_bridge_high |-> 6,
      left_alae |-> 31, right_alae |-> 261,
      upper_lip_center |-> 13, lower_lip_center |-> 14,
      left_mouth_corner |-> 61, right_mouth_corner |-> 291,
      left_eyebrow_inner |-> 70, left_eyebrow_center |-> 107,
      left_eyebrow_peak |-> 105, right_eyebrow_inner |-> 300,
      right_eyebrow_center |-> 336, right_eyebrow_peak |-> 334,
      chin_tip |-> 175, forehead_center |-> 9 ]

\* The landmarks derived as midpoints of two mapped ones.
derived_landmarks ==
    [ left_eye_center |-> <<"left_eye_inner", "left_eye_outer">>,
      right_eye_center |-> <<"right_eye_inner", "right_eye_outer">>,
      eyebrow_center_midpoint |-> <<"left_eyebrow_center", "right_eyebrow_center">> ]

MinMeshLength == 468

\* The named pixel landmarks of a face: a function from names to Points.
pixel_landmarks(face) ==
    LET mesh == face.landmarks
        bbox == face.face_bbox
        mapped == IF mesh.length >= MinMeshLength
                  THEN { n \in DOMAIN landmark_mapping : landmark_mapping[n] < mesh.length }
                  ELSE {}
        px(n) == LET norm_point == mesh.at[landmark_mapping[n]]
                 IN  Point((norm_point.x * bbox.width) \div 1000 + bbox.x,
                           (norm_point.y * bbox.height) \div 1000 + bbox.y)
        mid(a, b) == Point((px(a).x + px(b).x) \div 2, (px(a).y + px(b).y) \div 2)
        derived == { d \in DOMAIN derived_landmarks :
                        /\ derived_landmarks[d][1] \in mapped
                        /\ derived_landmarks[d][2] \in mapped }
    IN  [ n \in mapped \cup derived |->
            IF n \in mapped THEN px(n)
            ELSE mid(derived_landmarks[n][1], derived_landmarks[n][2]) ]

\* `w, h = image_shape` raises unless image_shape has exactly two entries.
_create_rule_context(face, shape) ==
    IF Len(shape) # 2
    THEN [raised |-> TRUE, landmarks |-> <<>>, face_bbox |-> face.face_bbox,
          image_shape |-> shape, confidence |-> face.confidence]
    ELSE [raised |-> FALSE, landmarks |-> pixel_landmarks(face),
          face_bbox |-> face.face_bbox, image_shape |-> shape,
          confidence |-> face.confidence]

\* The resolved anchors of a rule, in order.
resolved_anchors(anchors, context) ==
    LET Known(a) == a \in DOMAIN context.landmarks
    IN  SelectSeq(anchors, Known)

anchor_points(anchors, context) ==
    LET r == resolved_anchors(anchors, context)
    IN  [i \in 1..Len(r) |-> context.landmarks[r[i]]]

\* A plausible slip: the weights are summed by magnitude.
total_weight_of_magnitudes(anchor_weights) ==
    SumSeq([i \in 1..Len(anchor_weights) |->
                IF anchor_weights[i] < 0 THEN 0 - anchor_weights[i] ELSE anchor_weights[i]])

\* total_weight = sum(anchor_weights)
total_weight_of(anchor_weights) == SumSeq(anchor_weights)

\* A plausible slip: the position is returned as computed.
clamp_to_image_unbounded(v, size) == v

\* max(0, min(size - 1, v))
clamp_to_image(v, size) == Max(0, Min(size - 1, v))

_apply_landmark_vector_offset(rule, context) ==
    LET anchors == Get(rule, "anchors", <<>>)
        anchor_weights == Get(rule, "anchor_weights", [i \in 1..Len(anchors) |-> 1])
        offset_percent == Get(rule, "offset_percent", [x |-> 0, y |-> 0])
        total_weight == total_weight_of(anchor_weights)
        weight(i) == IF i <= Len(anchor_weights) THEN anchor_weights[i] ELSE 1
        known(i) == anchors[i] \in DOMAIN context.landmarks
        weighted_x == SumSeq([i \in 1..Len(anchors) |->
                        IF known(i) THEN context.landmarks[anchors[i]].x * weight(i) ELSE 0])
        weighted_y == SumSeq([i \in 1..Len(anchors) |->
                        IF known(i) THEN context.landmarks[anchors[i]].y * weight(i) ELSE 0])
    IN  IF Len(anchors) = 0 THEN None
        ELSE IF total_weight = 0 THEN None
        ELSE LET bbox == context.face_bbox
                 base_x == weighted_x \div total_weight
                 base_y == weighted_y \div total_weight
                 offset_x == (offset_percent.x * bbox.width) \div 1000
                 offset_y == (offset_percent.y * bbox.height) \div 1000
                 final_x == clamp_to_image(base_x + offset_x, context.image_shape[2])
                 final_y == clamp_to_image(base_y + offset_y, context.image_shape[1])
             IN  APoint(Point(final_x, final_y))

RECURSIVE curve_from(_, _)
curve_from(pts, i) ==
    IF i > Len(pts) - 1 THEN <<pts[Len(pts)]>>
    ELSE [j \in 1..20 |->
            Point(pts[i].x + ((pts[i + 1].x - pts[i].x) * (j - 1)) \div 20,
                  pts[i].y + ((pts[i + 1].y - pts[i].y) * (j - 1)) \div 20)]
         \o curve_from(pts, i + 1)

_create_smooth_curve(pts) == IF Len(pts) < 2 THEN pts ELSE curve_from(pts, 1)

\* A plausible slip: the second pass runs forward like the first.
reverse_range_forward(n) == [i \in 1..n |-> i]

\* range(len(line_points) - 1, -1, -1), as positions n down to 1
reverse_range(n) == [i \in 1..n |-> n + 1 - i]

_create_line_buffer(line_points, buffer_px) ==
    LET n == Len(line_points)
        p(i) == line_points[i]
        dx(i) == IF i = 1 THEN p(2).x - p(1).x
                 ELSE IF i = n THEN p(n).x - p(n - 1).x
                 ELSE ((p(i).x - p(i - 1).x) + (p(i + 1).x - p(i).x)) \div 2
        dy(i) == IF i = 1 THEN p(2).y - p(1).y
                 ELSE IF i = n THEN p(n).y - p(n - 1).y
                 ELSE ((p(i).y - p(i - 1).y) + (p(i + 1).y - p(i).y)) \div 2
        length(i) == ISqrt(dx(i) * dx(i) + dy(i) * dy(i))
        HasDirection(i) == length(i) > 0
        forward == SelectSeq([i \in 1..n |-> i], HasDirection)
        backward == SelectSeq(reverse_range(n), HasDirection)
        one_side == [k \in 1..Len(forward) |->
                        LET i == forward[k]
                        IN  Point(p(i).x + (-dy(i) * buffer_px) \div length(i),
                                  p(i).y + (dx(i) * buffer_px) \div length(i))]
        other_side == [k \in 1..Len(backward) |->
                        LET i == backward[k]
                        IN  Point(p(i).x + (dy(i) * buffer_px) \div length(i),
                                  p(i).y + (-dx(i) * buffer_px) \div length(i))]
    IN  IF n < 2 THEN <<>> ELSE one_side \o other_side

_apply_polyline_buffer(rule, context) ==
    LET anchors == Get(rule, "anchors", <<>>)
        buffer_px == Get(rule, "buffer_px", 5)
        shape == Get(rule, "shape", "straight_line")
        pts == anchor_points(anchors, context)
        polyline_points == IF shape = "curved_polyline"
                           THEN _create_smooth_curve(pts) ELSE pts
    IN  IF Len(anchors) < 2 THEN None
        ELSE IF Len(pts) < 2 THEN None
        ELSE AList(_create_line_buffer(polyline_points, buffer_px))

_create_circle_polygon(center, radius) ==
    [i \in 1..16 |-> Point(center.x + (radius * cos16[i]) \div 1000,
                           center.y + (radius * sin16[i]) \div 1000)]

\* The anchor names that contain "left", with "left" replaced by "right".
right_anchor_name ==
    [ left_eye_inner |-> "right_eye_inner", left_eye_outer |-> "right_eye_outer",
      left_eye_center |-> "right_eye_center", left_alae |-> "right_alae",
      left_mouth_corner |-> "right_mouth_corner",
      left_eyebrow_inner |-> "right_eyebrow_inner",
      left_eyebrow_center |-> "right_eyebrow_center",
      left_eyebrow_peak |-> "right_eyebrow_peak" ]

_apply_circle_around_landmark(rule, context) ==
    LET anchors == Get(rule, "anchors", <<>>)
        radius_px == Get(rule, "radius_px", 10)
        offset_percent == Get(rule, "offset_percent", [x |-> 0, y |-> 0])
        bilateral == Get(rule, "bilateral", FALSE)
        bbox == context.face_bbox
        offset_x == (Get(offset_percent, "x", 0) * bbox.width) \div 1000
        offset_y == (Get(offset_percent, "y", 0) * bbox.height) \div 1000
        right_offset_x ==
            (Get(offset_percent, "x_right", 0 - Get(offset_percent, "x", 0)) * bbox.width) \div 1000
        for_anchor(anchor_name) ==
            IF anchor_name \notin DOMAIN context.landmarks THEN <<>>
            ELSE LET center == context.landmarks[anchor_name]
                     own == _create_circle_polygon(
                                Point(center.x + offset_x, center.y + offset_y), radius_px)
                     mirrored ==
                        IF /\ bilateral
                           /\ anchor_name \in DOMAIN right_anchor_name
                           /\ right_anchor_name[anchor_name] \in DOMAIN context.landmarks
                        THEN LET right_center == context.landmarks[right_anchor_name[anchor_name]]
                             IN  _create_circle_polygon(
                                    Point(right_center.x + right_offset_x,
                                          right_center.y + offset_y), radius_px)
                        ELSE <<>>
                 IN  own \o mirrored
        circles == Flatten([i \in 1..Len(anchors) |-> for_anchor(anchors[i])])
    IN  IF circles # <<>> THEN AList(circles) ELSE None

_create_ellipse_polygon(center, width, height) ==
    [i \in 1..16 |-> Point(center.x + (width * cos16[i]) \div 2000,
                           center.y + (height * sin16[i]) \div 2000)]

_apply_ellipse_around_landmarks(rule, context) ==
    LET anchors == Get(rule, "anchors", <<>>)
        width == Get(rule, "width", 20)
        height == Get(rule, "height", 15)
        pts == anchor_points(anchors, context)
    IN  IF Len(anchors) = 0 THEN None
        ELSE LET center_x == SumSeq([i \in 1..Len(pts) |-> pts[i].x]) \div Len(anchors)
                 center_y == SumSeq([i \in 1..Len(pts) |-> pts[i].y]) \div Len(anchors)
             IN  AList(_create_ellipse_polygon(Point(center_x, center_y), width, height))

_expand_polygon(polygon, buffer_px) ==
    IF Len(polygon) < 3 THEN polygon
    ELSE LET centroid_x == SumSeq([i \in 1..Len(polygon) |-> polygon[i].x]) \div Len(polygon)
             centroid_y == SumSeq([i \in 1..Len(polygon) |-> polygon[i].y]) \div Len(polygon)
         IN  [i \in 1..Len(polygon) |->
                LET dx == polygon[i].x - centroid_x
                    dy == polygon[i].y - centroid_y
                    length == ISqrt(dx * dx + dy * dy)
                IN  IF length > 0
                    THEN Point(polygon[i].x + (dx * buffer_px) \div length,
                               polygon[i].y + (dy * buffer_px) \div length)
                    ELSE polygon[i]]

_apply_polygon_from_landmarks(rule, context) ==
    LET anchors == Get(rule, "anchors", <<>>)
        buffer_px == Get(rule, "buffer_px", 0)
        polygon_points == anchor_points(anchors, context)
    IN  IF Len(anchors) < 3 THEN None
        ELSE IF Len(polygon_points) < 3 THEN None
        ELSE IF buffer_px > 0 THEN AList(_expand_polygon(polygon_points, buffer_px))
        ELSE AList(polygon_points)

\* context.landmarks[anchors[0]] raises KeyError for an unknown anchor; the
\* function's own handler turns that into None.
_apply_bone_point(rule, context) ==
    LET anchors == Get(rule, "anchors", <<>>)
        bone_direction == Get(rule, "bone_direction", "inward")
    IN  IF Len(anchors) = 0 THEN None
        ELSE IF anchors[1] \notin DOMAIN context.landmarks THEN None
        ELSE LET base_point == context.landmarks[anchors[1]]
                 bbox == context.face_bbox
                 face_center_x == bbox.x + bbox.width \div 2
                 face_center_y == bbox.y + bbox.height \div 2
                 direction_x == IF bone_direction = "inward"
                                THEN (face_center_x - base_point.x) \div 10 ELSE 0
                 direction_y == IF bone_direction = "inward"
                                THEN (face_center_y - base_point.y) \div 10 ELSE 0
             IN  APoint(Point(base_point.x + direction_x, base_point.y + direction_y))

_apply_mask_from_landmarks(rule, context) ==
    LET anchors == Get(rule, "anchors", <<>>)
        mask_points == anchor_points(anchors, context)
    IN  IF Len(anchors) < 3 THEN None
        ELSE IF Len(mask_points) >= 3 THEN AList(mask_points) ELSE None

\* self.supported_rule_types[rule_type](rule, context)
apply_rule(rule_type, rule, context) ==
    CASE rule_type = "landmark_vector_offset" -> _apply_landmark_vector_offset(rule, context)
      [] rule_type = "polyline_buffer_from_landmarks" -> _apply_polyline_buffer(rule, context)
      [] rule_type = "circle_around_landmark" -> _apply_circle_around_landmark(rule, context)
      [] rule_type = "ellipse_around_landmarks" -> _apply_ellipse_around_landmarks(rule, context)
      [] rule_type = "polygon_from_landmarks" -> _apply_polygon_from_landmarks(rule, context)
      [] rule_type = "bone_point" -> _apply_bone_point(rule, context)
      [] rule_type = "mask_from_landmark_loop" -> _apply_mask_from_landmarks(rule, context)

\* rule.get("type") of a document; "None" when the document has no rule type.
rule_type_of(definition) == Get(Get(definition, "rule", <<>>), "type", "None")

\* A plausible slip: an unsupported rule type ends the batch.
skip_unsupported_abort(defs, i) == Len(defs) + 1

\* The `continue` taken for an unsupported rule type: on to the next document.
skip_unsupported(defs, i) == i + 1

\* The InjectionPoint built from one document, as a list of none or one.
\* InjectionPoint(...) is rejected by the schema (and the rejection swallowed
\* by the loop's handler) when position is a list of Points, or when
\* md_code or id is absent, the source field holding strings only.
injection_point_of(point_def, context) ==
    LET rule == Get(point_def, "rule", <<>>)
        rule_type == rule_type_of(point_def)
        coordinates == apply_rule(rule_type, rule, context)
    IN  IF coordinates.kind = "None" \/ coordinates.pts = <<>> THEN <<>>
        ELSE IF coordinates.kind # "Point" THEN <<>>
        ELSE IF "md_code" \notin DOMAIN point_def \/ "id" \notin DOMAIN point_def THEN <<>>
        ELSE << [ label |-> Get(point_def, "label", "Unknown Point"),
                  position |-> coordinates.pts[1],
                  confidence |-> (context.confidence * 9) \div 10,
                  warnings |-> Get(point_def, "warnings", <<>>),
                  rule_type |-> rule_type ] >>

\* A plausible slip: `if polygon_points:` alone, a single Point wrapped into
\* a list.
risk_zone_of_unchecked(zone_def, context) ==
    LET rule == Get(zone_def, "rule", <<>>)
        rule_type == rule_type_of(zone_def)
        polygon_points == apply_rule(rule_type, rule, context)
    IN  IF polygon_points.kind = "None" \/ polygon_points.pts = <<>> THEN <<>>
        ELSE << [ name |-> Get(zone_def, "name", "Unknown Zone"),
                  polygon |-> polygon_points.pts,
                  severity |-> Get(zone_def, "severity", "moderate"),
                  rule_type |-> rule_type ] >>

\* The RiskZone built from one document, as a list of none or one.
\* len(polygon_points) raises for a single Point; the loop's handler
\* swallows it.
risk_zone_of(zone_def, context) ==
    LET rule == Get(zone_def, "rule", <<>>)
        rule_type == rule_type_of(zone_def)
        polygon_points == apply_rule(rule_type, rule, context)
    IN  IF polygon_points.kind = "None" \/ polygon_points.pts = <<>> THEN <<>>
        ELSE IF polygon_points.kind = "Point" THEN <<>>
        ELSE IF Len(polygon_points.pts) < 3 THEN <<>>
        ELSE << [ name |-> Get(zone_def, "name", "Unknown Zone"),
                  polygon |-> polygon_points.pts,
                  severity |-> Get(zone_def, "severity", "moderate"),
                  rule_type |-> rule_type ] >>

RECURSIVE point_loop(_, _, _)
point_loop(defs, i, context) ==
    IF i > Len(defs) THEN <<>>
    ELSE IF rule_type_of(defs[i]) \notin supported_rule_types
         THEN point_loop(defs, skip_unsupported(defs, i), context)
         ELSE injection_point_of(defs[i], context) \o point_loop(defs, i + 1, context)

RECURSIVE zone_loop(_, _, _)
zone_loop(defs, i, context) ==
    IF i > Len(defs) THEN <<>>
    ELSE IF rule_type_of(defs[i]) \notin supported_rule_types
         THEN zone_loop(defs, skip_unsupported(defs, i), context)
         ELSE risk_zone_of(defs[i], context) \o zone_loop(defs, i + 1, context)

\* Both return the list built, or raise when the context cannot be created.
apply_injection_point_rules(point_definitions, face, shape) ==
    LET context == _create_rule_context(face, shape)
    IN  IF context.raised THEN [raised |-> TRUE, results |-> <<>>]
        ELSE [raised |-> FALSE, results |-> point_loop(point_definitions, 1, context)]

apply_risk_zone_rules(zone_definitions, face, shape) ==
    LET context == _create_rule_context(face, shape)
    IN  IF context.raised THEN [raised |-> TRUE, results |-> <<>>]
        ELSE [raised |-> FALSE, results |-> zone_loop(zone_definitions, 1, context)]

\* Inputs of the rules engine.

\* A detected mesh: its length and its normalized points (thousandths of the
\* face box) at the mapped indices.
FullMesh ==
    [ length |-> 468,
      at |-> [ i \in { landmark_mapping[n] : n \in DOMAIN landmark_mapping } |->
                CASE i = 133 -> Point(400, 250)  [] i = 33  -> Point(200, 250)
                  [] i = 362 -> Point(600, 250)  [] i = 263 -> Point(800, 250)
                  [] i = 1   -> Point(500, 300)  [] i = 6   -> Point(500, 200)
                  [] i = 31  -> Point(400, 320)  [] i = 261 -> Point(600, 320)
                  [] i = 13  -> Point(500, 380)  [] i = 14  -> Point(500, 440)
                  [] i = 61  -> Point(100, 400)  [] i = 291 -> Point(900, 400)
                  [] i = 70  -> Point(350, 150)  [] i = 107 -> Point(250, 120)
                  [] i = 105 -> Point(200, 100)  [] i = 300 -> Point(650, 150)
                  [] i = 336 -> Point(750, 120)  [] i = 334 -> Point(800, 100)
                  [] i = 175 -> Point(500, 1000) [] i = 9   -> Point(500, 0) ] ]

\* A mesh too short for the index table: no landmark gets a name.
ShortMesh == [ length |-> 68, at |-> <<>> ]

Faces ==
    { [ landmarks |-> FullMesh,
        face_bbox |-> [x |-> 100, y |-> 100, width |-> 200, height |-> 200],
        confidence |-> 1000 ],
      [ landmarks |-> ShortMesh,
        face_bbox |-> [x |-> 100, y |-> 100, width |-> 200, height |-> 200],
        confidence |-> 800 ] }

\* image_shape as declared (height, width), and as numpy gives it for a
\* colour image (height, width, channels).
ImageShapes == { <<400, 400>>, <<280, 400>>, <<400, 400, 3>> }

\* Rule documents as the knowledge files give them for injection points.
PointDocs ==
    { [ label |-> "Lip corner midpoint", md_code |-> "Lp1", id |-> "lp1",
        rule |-> [ type |-> "landmark_vector_offset",
                   anchors |-> <<"left_mouth_corner", "right_mouth_corner">>,
                   offset_percent |-> [x |-> 0, y |-> 100] ] ],
      [ label |-> "Chin apex", md_code |-> "C1", id |-> "c1",
        rule |-> [ type |-> "bone_point", anchors |-> <<"chin_tip">>,
                   bone_direction |-> "inward" ] ],
      [ label |-> "Pogonion", md_code |-> "C2", id |-> "c2",
        rule |-> [ type |-> "landmark_vector_offset", anchors |-> <<"pogonion">>,
                   offset_percent |-> [x |-> 50, y |-> 0] ] ],
      [ label |-> "Spline point", md_code |-> "X1", id |-> "x1",
        rule |-> [ type |-> "spline_offset", anchors |-> <<"nose_tip">> ] ],
      [ label |-> "Balanced", md_code |-> "Lp2", id |-> "lp2",
        rule |-> [ type |-> "landmark_vector_offset",
                   anchors |-> <<"upper_lip_center", "lower_lip_center">>,
                   anchor_weights |-> <<1, -1>> ] ],
      [ label |-> "Untyped", md_code |-> "X2", id |-> "x2" ],
      [ label |-> "Weighted corner", md_code |-> "Lp3", id |-> "lp3",
        rule |-> [ type |-> "landmark_vector_offset",
                   anchors |-> <<"left_mouth_corner", "right_mouth_corner">>,
                   anchor_weights |-> <<3, 1>>,
                   offset_percent |-> [x |-> -50, y |-> 0] ] ],
      [ label |-> "Below chin", md_code |-> "C3", id |-> "c3",
        rule |-> [ type |-> "landmark_vector_offset", anchors |-> <<"chin_tip">>,
                   offset_percent |-> [x |-> 0, y |-> 100] ] ],
      [ label |-> "Half balanced", md_code |-> "Lp4", id |-> "lp4",
        rule |-> [ type |-> "landmark_vector_offset",
                   anchors |-> <<"upper_lip_center", "pogonion">>,
                   anchor_weights |-> <<1, -1>> ] ],
      [ label |-> "Alar ring", md_code |-> "N1", id |-> "n1",
        rule |-> [ type |-> "circle_around_landmark", anchors |-> <<"left_alae">>,
                   radius_px |-> 10 ] ] }

\* Rule documents as the knowledge files give them for risk zones.
ZoneDocs ==
    { [ name |-> "labial_artery", severity |-> "critical",
        rule |-> [ type |-> "polyline_buffer_from_landmarks",
                   anchors |-> <<"left_mouth_corner", "upper_lip_center", "right_mouth_corner">>,
                   buffer_px |-> 5 ] ],
      [ name |-> "angular_artery", severity |-> "high",
        rule |-> [ type |-> "circle_around_landmark", anchors |-> <<"left_alae">>,
                   radius_px |-> 10, bilateral |-> TRUE ] ],
      [ name |-> "mental_nerve",
        rule |-> [ type |-> "ellipse_around_landmarks",
                   anchors |-> <<"chin_tip", "lower_lip_center">>,
                   width |-> 40, height |-> 20 ] ],
      [ name |-> "periorbital", severity |-> "high",
        rule |-> [ type |-> "polygon_from_landmarks",
                   anchors |-> <<"left_eye_outer", "right_eye_outer", "nose_tip">>,
                   buffer_px |-> 4 ] ],
      [ name |-> "jawline", severity |-> "low",
        rule |-> [ type |-> "mask_from_landmark_loop",
                   anchors |-> <<"chin_tip", "gonion_left", "gonion_right">> ] ],
      [ name |-> "submental", severity |-> "moderate",
        rule |-> [ type |-> "polyline_buffer_from_landmarks",
                   anchors |-> <<"chin_tip", "pogonion">>, buffer_px |-> 6 ] ],
      [ name |-> "columellar_artery", severity |-> "high",
        rule |-> [ type |-> "polyline_buffer_from_landmarks",
                   anchors |-> <<"nose_tip", "upper_lip_center", "nose_tip">>,
                   buffer_px |-> 4 ] ],
      [ name |-> "vessel_tree", severity |-> "critical",
        rule |-> [ type |-> "vessel_graph", anchors |-> <<"nose_tip", "chin_tip">> ] ],
      [ name |-> "supraorbital", severity |-> "moderate",
        rule |-> [ type |-> "landmark_vector_offset",
                   anchors |-> <<"left_eyebrow_center">> ] ] }

\* Lists of up to MaxDocs documents of a pool, no document twice.
DocLists(pool) ==
    UNION { { f \in [1..n -> pool] : \A i, j \in 1..n : i # j => f[i] # f[j] } :
            n \in 0..Min(MaxDocs, Cardinality(pool)) }

\* The Safety Validator is not part of this behaviour.
NoValidatorInput ==
    /\ area = "none"
    /\ points = <<>>
    /\ before = <<>>
    /\ injection_points = <<>>
    /\ risk_zones = <<>>
    /\ accepted = <<>>
    /\ validated_points = <<>>
    /\ filtered_zones = <<>>

InitPointRules ==
    /\ op = "point_rules"
    /\ definitions \in DocLists(PointDocs)
    /\ normalized_face \in Faces
    /\ image_shape \in ImageShapes
    /\ produced = <<>>
    /\ NoValidatorInput
    /\ NoRequest
    /\ NoScoreInput
    /\ NoQualityInput
    /\ NoStore
    /\ NoScaleInput
    /\ ncalls = 0

InitZoneRules ==
    /\ op = "zone_rules"
    /\ definitions \in DocLists(ZoneDocs)
    /\ normalized_face \in Faces
    /\ image_shape \in ImageShapes
    /\ produced = <<>>
    /\ NoValidatorInput
    /\ NoRequest
    /\ NoScoreInput
    /\ NoQualityInput
    /\ NoStore
    /\ NoScaleInput
    /\ ncalls = 0

ApplyInjectionPointRules ==
    /\ op = "point_rules"
    /\ ncalls = 0
    /\ produced' = apply_injection_point_rules(definitions, normalized_face, image_shape)
    /\ ncalls' = 1
    /\ UNCHANGED <<op, definitions, normalized_face, image_shape>>
    /\ UNCHANGED validator_vars
    /\ UNCHANGED handler_vars
    /\ UNCHANGED <<score_vars, qc_vars, scale_vars, store_vars>>

ApplyRiskZoneRules ==
    /\ op = "zone_rules"
    /\ ncalls = 0
    /\ produced' = apply_risk_zone_rules(definitions, normalized_face, image_shape)
    /\ ncalls' = 1
    /\ UNCHANGED <<op, definitions, normalized_face, image_shape>>
    /\ UNCHANGED validator_vars
    /\ UNCHANGED handler_vars
    /\ UNCHANGED <<score_vars, qc_vars, scale_vars, store_vars>>

----------------------------------------------------------------------------
\* The analysis endpoint (app.py).  Scores are in thousandths.

\* What calling an `async def` method without awaiting it gives: a coroutine
\* object, which is true in a condition and has none of the result's
\* attributes.
Coroutine(method) == [coroutine |-> method]

\* `if not value`: None and the empty list are false.
Truthy(value) == value # None /\ value # <<>>

\* value.name raises AttributeError unless the value has the attribute.
HasAttr(value, name) == name \in DOMAIN value

\* knowledge_loader.load_area_knowledge(request.area), as called at app.py:154
load_area_knowledge_call(a) == Coroutine("load_area_knowledge")

\* knowledge_loader.load_fallback_templates(area), as called at app.py:252
load_fallback_templates_call(a) == Coroutine("load_fallback_templates")

HTTPException(status) ==
    [ kind |-> "HTTPException", status_code |-> status,
      risk_zones |-> <<>>, injection_points |-> <<>>, confidence_score |-> 0,
      fallback_used |-> FALSE, warnings |-> <<>> ]

RiskMapResponse(zones, pts, score, fallback, warns) ==
    [ kind |-> "RiskMapResponse", status_code |-> 200,
      risk_zones |-> zones, injection_points |-> pts, confidence_score |-> score,
      fallback_used |-> fallback, warnings |-> warns ]

\* A plausible slip: the point is kept within the image, without a margin.
clamp_to_margin_none(v, size) == Max(0, Min(size, v))

\* max(10, min(w - 10, pixel_x))
clamp_to_margin(v, size) == Max(10, Min(size - 10, v))

\* scale_template_to_image(template_points, image_shape): `h, w = image_shape`
\* raises unless image_shape has exactly two entries.  Offsets are in
\* thousandths, positions whole pixels rounded down; the label is the
\* template's label with its suffix.
scale_template_to_image(template_points, shape) ==
    IF template_points = <<>> THEN [raised |-> FALSE, results |-> <<>>]
    ELSE IF Len(shape) # 2 THEN [raised |-> TRUE, results |-> <<>>]
    ELSE LET h == shape[1]
             w == shape[2]
             scaled(t) ==
                LET pixel_x == w \div 2 + (Get(t, "x_offset", 0) * w * 3) \div 10000
                    pixel_y == h \div 2 + (Get(t, "y_offset", 0) * h * 4) \div 10000
                IN  [ label |-> << Get(t, "label", "Template Point"), " (approximated)" >>,
                      position |-> Point(clamp_to_margin(pixel_x, w),
                                         clamp_to_margin(pixel_y, h)),
                      confidence |-> 300,
                      warnings |-> << "Template-based positioning - verification required",
                                      "Anatomical landmarks not detected" >> ]
         IN  [raised |-> FALSE,
              results |-> [i \in 1..Len(template_points) |-> scaled(template_points[i])]]

\* A plausible slip: the exception becomes an HTTP error.
fallback_on_exception_reraise(a, shape) == HTTPException(500)

\* The response of the handler `except Exception` of
\* _generate_fallback_response.
fallback_on_exception(a, shape) ==
    RiskMapResponse(<<>>, <<>>, 0, TRUE,
        << "Analysis failed - no results available",
           "Manual assessment required",
           "Consider retaking photo or seeking specialist consultation" >>)

_generate_fallback_response(a, shape) ==
    LET fallback_data == load_fallback_templates_call(a)
    IN  IF ~ Truthy(fallback_data)
        THEN RiskMapResponse(<<>>, <<>>, 100, TRUE,
                << "Automated detection failed - no template available",
                   "Manual assessment required for treatment planning" >>)
        ELSE IF ~ HasAttr(fallback_data, "injection_points")
        THEN fallback_on_exception(a, shape)
        ELSE LET scaled_points == scale_template_to_image(fallback_data.injection_points, shape)
             IN  IF scaled_points.raised THEN fallback_on_exception(a, shape)
                 ELSE RiskMapResponse(<<>>, scaled_points.results, 300, TRUE,
                        << "Face landmarks not detected - using approximate template",
                           "Results are approximate - manual verification required",
                           "Consider retaking photo with better lighting/positioning" >>)

\* A plausible slip: the completeness factor without its cap.
completeness_factor_uncapped(num_injection_points, num_risk_zones) ==
    ((num_injection_points + num_risk_zones) * 1000) \div 8

\* min(1.0, (num_injection_points + num_risk_zones) / 8.0), in thousandths
completeness_factor_of(num_injection_points, num_risk_zones) ==
    Min(1000, ((num_injection_points + num_risk_zones) * 1000) \div 8)

\* _calculate_confidence_score, in thousandths; the confidences are
\* multiples of 0.01, so that the weighted sum is a whole number of
\* thousandths.
_calculate_confidence_score(landmarks_result, face, num_injection_points, num_risk_zones) ==
    LET landmark_confidence ==
            IF HasAttr(landmarks_result, "confidence") THEN landmarks_result.confidence ELSE 800
        normalization_confidence ==
            IF HasAttr(face, "confidence") THEN face.confidence ELSE 900
        completeness_factor ==
            completeness_factor_of(num_injection_points, num_risk_zones)
        overall_confidence ==
            (landmark_confidence * 5 + normalization_confidence * 3 + completeness_factor * 2) \div 10
    IN  Max(100, Min(1000, overall_confidence))

\* face_aligner.normalize_face(landmarks_result.landmarks, image_data.shape):
\* the stub returns its first argument unless that is a numpy array.
normalize_face(image, landmarks) == image

\* A plausible slip: the zones are generated whatever the request's modes.
risk_zones_step_any_mode(req, face, area_knowledge, shape) ==
    IF ~ HasAttr(area_knowledge, "risk_zones") THEN [raised |-> TRUE, results |-> <<>>]
    ELSE apply_risk_zone_rules(area_knowledge.risk_zones, face, shape)

\* Step 6 of analyze_risk_map, risk zones: what apply_risk_zone_rules
\* returns, or that the step raised.
risk_zones_step(req, face, area_knowledge, shape) ==
    IF ~ req.modes.risk_zones THEN [raised |-> FALSE, results |-> <<>>]
    ELSE IF ~ HasAttr(area_knowledge, "risk_zones") THEN [raised |-> TRUE, results |-> <<>>]
    ELSE apply_risk_zone_rules(area_knowledge.risk_zones, face, shape)

\* Step 6 of analyze_risk_map, injection points.
injection_points_step(req, face, area_knowledge, shape) ==
    IF ~ req.modes.injection_points THEN [raised |-> FALSE, results |-> <<>>]
    ELSE IF ~ HasAttr(area_knowledge, "injection_points") THEN [raised |-> TRUE, results |-> <<>>]
    ELSE apply_injection_point_rules(area_knowledge.injection_points, face, shape)

\* Step 7: the candidates, as objects 1..n, through validate_injection_safety.
validation_step(req, zones, candidates) ==
    validate_injection_safety([i \in 1..Len(candidates) |-> i], zones, req.area, candidates)

\* Steps 8 and 9: the score and the response.
response_step(landmarks_result, face, zones, validated) ==
    RiskMapResponse(zones, objects(validated.validated, validated.heap),
                    _calculate_confidence_score(landmarks_result, face,
                                                Len(validated.validated), Len(zones)),
                    FALSE, <<>>)

\* Steps 7 to 9 after the rules: the response, or HTTP 500 for the exception
\* a rule step raised, with the Safety Validator methods that were called.
after_rules(req, landmarks_result, face, zones, candidates) ==
    IF zones.raised \/ candidates.raised
    THEN [response |-> HTTPException(500), calls |-> <<>>]
    ELSE [response |-> response_step(landmarks_result, face, zones.results,
                            validation_step(req, zones.results, candidates.results)),
          calls |-> <<"validate_injection_safety">>]

\* Steps 6 to 9 of analyze_risk_map.
analysis_steps(req, landmarks_result, face, area_knowledge, shape) ==
    after_rules(req, landmarks_result, face,
                risk_zones_step(req, face, area_knowledge, shape),
                injection_points_step(req, face, area_knowledge, shape))

\* analyze_risk_map(request): request.image stands for what process_image
\* made of it, request.detection for what detect_landmarks returns.
analyze_risk_map(req) ==
    LET image_data == req.image
        landmarks_result == req.detection
    IN  IF image_data = None
        THEN [response |-> HTTPException(400), calls |-> <<>>]
        ELSE IF ~ landmarks_result.success
        THEN [response |-> _generate_fallback_response(req.area, image_data.shape),
              calls |-> <<>>]
        ELSE LET face == normalize_face(landmarks_result.landmarks, image_data.shape)
                 area_knowledge == load_area_knowledge_call(req.area)
             IN  IF ~ Truthy(area_knowledge)
                 THEN [response |-> HTTPException(404), calls |-> <<>>]
                 ELSE analysis_steps(req, landmarks_result, face, area_knowledge,
                                     image_data.shape)

\* Inputs of the endpoint.

\* What process_image returns: None, or an array of shape
\* (height, width, 3).
Images == { None, [shape |-> <<400, 400, 3>>], [shape |-> <<480, 640, 3>>] }

\* What detect_landmarks returns: a failure, or a mesh with its confidence.
Detections ==
    { [success |-> FALSE, landmarks |-> <<>>, confidence |-> 0] }
    \cup { [success |-> TRUE, landmarks |-> FullMesh, confidence |-> c] :
            c \in {100, 620, 1000} }

Requests ==
    [ area : SupportedAreas,
      modes : [risk_zones : BOOLEAN, injection_points : BOOLEAN],
      image : Images,
      detection : Detections ]

InitAnalyze ==
    /\ op = "analyze"
    /\ request \in Requests
    /\ response = <<>>
    /\ calls = <<>>
    /\ NoValidatorInput
    /\ NoRulesInput
    /\ NoScoreInput
    /\ NoQualityInput
    /\ NoStore
    /\ NoScaleInput
    /\ ncalls = 0

AnalyzeRiskMap ==
    /\ op = "analyze"
    /\ ncalls = 0
    /\ LET answer == analyze_risk_map(request)
       IN  /\ response' = answer.response
           /\ calls' = answer.calls
    /\ ncalls' = 1
    /\ UNCHANGED <<op, request>>
    /\ UNCHANGED validator_vars
    /\ UNCHANGED rules_vars
    /\ UNCHANGED <<score_vars, qc_vars, scale_vars, store_vars>>

----------------------------------------------------------------------------
(* The confidence score on its own (app.py) *)

\* What detect_landmarks returns on success: the confidence is clamped to
\* [0.1, 1.0] (landmarks.py:269); 0 is the confidence of a failed detection.
ScoredDetections ==
    { [success |-> TRUE, confidence |-> c] : c \in {0, 100, 620, 1000} }

\* The normalized face: the landmark list normalize_face hands back, which
\* has no confidence, or a NormalizedFace, whose confidence is any float.
ScoredFaces ==
    { FullMesh } \cup { [confidence |-> c] : c \in {0, 500, 1000, 1200} }

\* The counts of returned points and zones.
PointCounts == 0..MaxCandidates
ZoneCounts == 0..MaxZones

InitScore ==
    /\ op = "score"
    /\ scored_analysis \in [landmarks_result : ScoredDetections, normalized_face : ScoredFaces]
    /\ confidence_scores = <<>>
    /\ NoValidatorInput
    /\ NoRulesInput
    /\ NoRequest
    /\ NoQualityInput
    /\ NoStore
    /\ NoScaleInput
    /\ ncalls = 0

\* One call of _calculate_confidence_score for the analysis, with the counts
\* of one outcome of its rules.
CalculateConfidenceScore ==
    /\ op = "score"
    /\ ncalls < MaxCalls
    /\ \E p \in PointCounts, z \in ZoneCounts :
          confidence_scores' = Append(confidence_scores,
              [ num_injection_points |-> p, num_risk_zones |-> z,
                score |-> _calculate_confidence_score(scored_analysis.landmarks_result,
                                                      scored_analysis.normalized_face, p, z) ])
    /\ ncalls' = ncalls + 1
    /\ UNCHANGED <<op, scored_analysis>>
    /\ UNCHANGED validator_vars
    /\ UNCHANGED rules_vars
    /\ UNCHANGED handler_vars
    /\ UNCHANGED <<qc_vars, scale_vars, store_vars>>

----------------------------------------------------------------------------
(* QualityController.should_retry (engine/qc.py) *)

\* A plausible slip: a degradation of exactly 20 asks for a retry.
degradation_is_significant_inclusive(brisque_degradation) == brisque_degradation >= 200

\* qc_results['brisque_degradation'] > 20, in tenths of a BRISQUE point
degradation_is_significant(brisque_degradation) == brisque_degradation > 200

should_retry(results) ==
    IF results.id_warning THEN <<TRUE, "Identity similarity too low">>
    ELSE IF results.ssim_warning THEN <<TRUE, "Off-target changes detected">>
    ELSE IF degradation_is_significant(results.brisque_degradation)
    THEN <<TRUE, "Significant quality degradation">>
    ELSE <<FALSE, "Quality checks passed">>

\* brisque_edited - brisque_original, in tenths: an improvement, small and
\* large degradations, and the values around the threshold.
Degradations == {-50, 50, 199, 200, 201, 350}

QcResults ==
    [ id_warning : BOOLEAN, ssim_warning : BOOLEAN, brisque_degradation : Degradations ]

InitRetry ==
    /\ op = "retry"
    /\ qc_results \in QcResults
    /\ retry_decision = <<>>
    /\ NoValidatorInput
    /\ NoRulesInput
    /\ NoRequest
    /\ NoScoreInput
    /\ NoStore
    /\ NoScaleInput
    /\ ncalls = 0

ShouldRetry ==
    /\ op = "retry"
    /\ ncalls = 0
    /\ retry_decision' = should_retry(qc_results)
    /\ ncalls' = 1
    /\ UNCHANGED <<op, qc_results>>
    /\ UNCHANGED validator_vars
    /\ UNCHANGED rules_vars
    /\ UNCHANGED handler_vars
    /\ UNCHANGED <<score_vars, scale_vars, store_vars>>

----------------------------------------------------------------------------
(* The Knowledge Store (services/knowledge_loader.py) and application       *)
(* startup (app.py).  The loader's coroutines never suspend (the files are  *)
(* read with blocking calls), so each awaited operation is one step.        *)

MaxClock == 2

\* self.supported_areas, in the order warm_up goes through them
supported_areas == <<"lips", "cheeks", "chin", "forehead">>

\* A file of the knowledge base: missing, not YAML ("unparseable"), YAML
\* whose list is not a list of mappings ("malformed"), or a list of documents.
File(state, docs) == [state |-> state, docs |-> docs]
MissingFile == File("missing", <<>>)

\* An area's directory on disk.
AreaDir(present, pts, zones, template) ==
    [ exists |-> present, injection_points |-> pts, risk_zones |-> zones,
      fallback_template |-> template ]

MissingDir == AreaDir(FALSE, MissingFile, MissingFile, MissingFile)

CompleteDir ==
    AreaDir(TRUE, File("ok", <<"point_1", "point_2">>), File("ok", <<"zone_1">>),
            File("ok", <<"template_point">>))

\* The ways one area's directory falls short of a complete one.
FaultyDirs ==
    { MissingDir,
      AreaDir(TRUE, MissingFile, MissingFile, MissingFile),
      AreaDir(TRUE, File("unparseable", <<>>), File("ok", <<"zone_1">>), MissingFile),
      AreaDir(TRUE, File("ok", <<"point_1">>), File("malformed", <<>>), MissingFile),
      AreaDir(TRUE, File("ok", <<"point_1">>), File("ok", <<"zone_1">>),
              File("unparseable", <<>>)),
      AreaDir(TRUE, File("ok", <<"point_1">>), File("ok", <<"zone_1">>), MissingFile) }

\* The knowledge base directory as startup finds it: complete, with one
\* area's directory faulty, or absent altogether; with or without the
\* directory `common`.
DiskLayouts ==
    LET complete == [a \in Range(supported_areas) |-> CompleteDir]
        area_dirs ==
            { complete, [a \in Range(supported_areas) |-> MissingDir] }
            \cup { [complete EXCEPT ![a] = dir] :
                    a \in Range(supported_areas), dir \in FaultyDirs }
    IN  { [common |-> c, areas |-> dirs] : c \in BOOLEAN, dirs \in area_dirs }

\* self.knowledge_base_path / area
area_path(d, a) == IF a \in DOMAIN d.areas THEN d.areas[a] ELSE MissingDir

\* dict[key] = value and `del dict[key]`
Put(dict, key, value) ==
    [k \in DOMAIN dict \cup {key} |-> IF k = key THEN value ELSE dict[k]]
Remove(dict, key) == [k \in DOMAIN dict \ {key} |-> dict[k]]

\* The loader's three caches.
Caches(kc, akc, ft) ==
    [knowledge_cache |-> kc, area_knowledge_cache |-> akc, fallback_templates |-> ft]

\* _load_common_knowledge: the cache keys of the files of `common`; every
\* failure is logged and passed over.
_load_common_knowledge(d, kc) ==
    IF ~ d.common THEN kc
    ELSE kc \cup { "common_anatomy_references", "common_safety_guidelines",
                   "common_md_codes_index" }

\* One of the two rule files of _load_area_knowledge: a missing file and one
\* that fails to load leave the list empty.
rule_list(file) == IF file.state = "ok" THEN file.docs ELSE <<>>

AreaKnowledge(a, pts, zones, t) ==
    [ area |-> a, injection_points |-> pts, risk_zones |-> zones,
      version |-> "1.0", last_updated |-> t ]

\* _load_area_knowledge(area) at time t.  AreaKnowledge(...) rejects a list
\* that is not a list of mappings (schemas.py:160-161) outside any handler.
_load_area_knowledge(a, d, akc, t) ==
    LET dir == area_path(d, a)
    IN  IF ~ dir.exists
        THEN [raised |-> FALSE, value |-> None, area_knowledge_cache |-> akc]
        ELSE IF dir.injection_points.state = "malformed" \/ dir.risk_zones.state = "malformed"
        THEN [raised |-> TRUE, value |-> None, area_knowledge_cache |-> akc]
        ELSE LET area_knowledge ==
                    AreaKnowledge(a, rule_list(dir.injection_points),
                                  rule_list(dir.risk_zones), t)
             IN  [ raised |-> FALSE, value |-> area_knowledge,
                   area_knowledge_cache |-> Put(akc, a, area_knowledge) ]

load_area_knowledge(a, d, akc, t) ==
    IF a \notin Range(supported_areas)
    THEN [value |-> None, area_knowledge_cache |-> akc]
    ELSE IF a \in DOMAIN akc
    THEN [value |-> akc[a], area_knowledge_cache |-> akc]
    ELSE LET knowledge == _load_area_knowledge(a, d, akc, t)
         IN  IF knowledge.raised
             THEN [value |-> None, area_knowledge_cache |-> akc]
             ELSE [ value |-> knowledge.value,
                    area_knowledge_cache |-> knowledge.area_knowledge_cache ]

FallbackTemplate(a, pts, penalty) ==
    [area |-> a, injection_points |-> pts, confidence_penalty |-> penalty]

\* _generate_basic_fallback_template(area): the codes of its built-in points
_generate_basic_fallback_template(a) ==
    FallbackTemplate(a,
        CASE a = "lips" -> <<"LP2", "LP3">>
          [] a = "cheeks" -> <<"CK1", "CK1">>
          [] a = "chin" -> <<"CH1">>
          [] OTHER -> <<"FH2", "FH2">>,
        700)

\* load_fallback_templates(area): every exception ends in None; a generated
\* template is returned without being cached.
load_fallback_templates(a, d, ft) ==
    IF a \in DOMAIN ft THEN [value |-> ft[a], fallback_templates |-> ft]
    ELSE LET template == area_path(d, a).fallback_template
         IN  IF template.state = "ok"
             THEN LET fallback_template == FallbackTemplate(a, template.docs, 500)
                  IN  [ value |-> fallback_template,
                        fallback_templates |-> Put(ft, a, fallback_template) ]
             ELSE IF template.state = "missing" /\ a \in Range(supported_areas)
             THEN [value |-> _generate_basic_fallback_template(a), fallback_templates |-> ft]
             ELSE [value |-> None, fallback_templates |-> ft]

\* _load_fallback_templates, from the i-th supported area on
RECURSIVE _load_fallback_templates(_, _, _)
_load_fallback_templates(i, d, ft) ==
    IF i > Len(supported_areas) THEN ft
    ELSE LET template == load_fallback_templates(supported_areas[i], d, ft)
         IN  _load_fallback_templates(i + 1, d,
                IF template.value # None
                THEN Put(template.fallback_templates, supported_areas[i], template.value)
                ELSE template.fallback_templates)

\* The loop of warm_up over the supported areas, from the i-th on: the first
\* exception ends it.
RECURSIVE load_areas(_, _, _, _)
load_areas(i, d, akc, t) ==
    IF i > Len(supported_areas) THEN [raised |-> FALSE, area_knowledge_cache |-> akc]
    ELSE LET knowledge == _load_area_knowledge(supported_areas[i], d, akc, t)
         IN  IF knowledge.raised THEN [raised |-> TRUE, area_knowledge_cache |-> akc]
             ELSE load_areas(i + 1, d, knowledge.area_knowledge_cache, t)

\* warm_up(): the caches it leaves, and whether it raised.
warm_up(d, kc, akc, ft, t) ==
    LET areas == load_areas(1, d, akc, t)
    IN  [ raised |-> areas.raised,
          caches |-> Caches(_load_common_knowledge(d, kc), areas.area_knowledge_cache,
                            IF areas.raised THEN ft ELSE _load_fallback_templates(1, d, ft)) ]

\* reload_knowledge_base(area) for an area
reload_area(a, d, kc, akc, ft, t) ==
    LET knowledge == _load_area_knowledge(a, d, Remove(akc, a), t)
    IN  [ raised |-> knowledge.raised,
          caches |-> Caches(kc, knowledge.area_knowledge_cache,
                        IF knowledge.raised THEN Remove(ft, a)
                        ELSE load_fallback_templates(a, d, Remove(ft, a)).fallback_templates) ]

\* reload_knowledge_base(area=None)
reload_knowledge_base(a, d, kc, akc, ft, t) ==
    IF a # "" THEN reload_area(a, d, kc, akc, ft, t)
    ELSE warm_up(d, {}, <<>>, <<>>, t)

\* The areas a caller may name: the supported ones and one that is not.
AreaArguments == Range(supported_areas) \cup {"nose"}

InitStore ==
    /\ op = "store"
    /\ disk \in DiskLayouts
    /\ knowledge_cache = {}
    /\ area_knowledge_cache = <<>>
    /\ fallback_templates = <<>>
    /\ startup = "pending"
    /\ now = 0
    /\ served = 0
    /\ NoValidatorInput
    /\ NoRulesInput
    /\ NoRequest
    /\ NoScoreInput
    /\ NoQualityInput
    /\ NoScaleInput
    /\ ncalls = 0

StoreFrame ==
    /\ UNCHANGED <<op, disk>>
    /\ UNCHANGED validator_vars
    /\ UNCHANGED rules_vars
    /\ UNCHANGED handler_vars
    /\ UNCHANGED <<score_vars, qc_vars, scale_vars>>

SetCaches(caches) ==
    /\ knowledge_cache' = caches.knowledge_cache
    /\ area_knowledge_cache' = caches.area_knowledge_cache
    /\ fallback_templates' = caches.fallback_templates

\* startup_event: whatever warm_up raises is logged, and the application
\* goes on to serve.
StartupEvent ==
    /\ op = "store"
    /\ startup = "pending"
    /\ LET warmed == warm_up(disk, knowledge_cache, area_knowledge_cache,
                             fallback_templates, now)
       IN  /\ SetCaches(warmed.caches)
           /\ startup' = IF warmed.raised THEN "warm_up_failed" ELSE "warmed"
    /\ UNCHANGED <<now, served, ncalls>>
    /\ StoreFrame

Serving == startup \in {"warmed", "warm_up_failed"}

\* An analysis request: analyze_risk_map calls the loader without awaiting
\* it (app.py:154, 252), so the loader's code does not run.
ServeRequest ==
    /\ op = "store"
    /\ Serving
    /\ served < MaxCalls
    /\ served' = served + 1
    /\ UNCHANGED <<knowledge_cache, area_knowledge_cache, fallback_templates,
                   startup, now, ncalls>>
    /\ StoreFrame

\* await load_area_knowledge(area)
LoadAreaKnowledge ==
    /\ op = "store"
    /\ Serving
    /\ ncalls < MaxCalls
    /\ \E a \in AreaArguments :
          area_knowledge_cache' =
              load_area_knowledge(a, disk, area_knowledge_cache, now).area_knowledge_cache
    /\ ncalls' = ncalls + 1
    /\ UNCHANGED <<knowledge_cache, fallback_templates, startup, now, served>>
    /\ StoreFrame

\* await load_fallback_templates(area)
LoadFallbackTemplates ==
    /\ op = "store"
    /\ Serving
    /\ ncalls < MaxCalls
    /\ \E a \in AreaArguments :
          fallback_templates' =
              load_fallback_templates(a, disk, fallback_templates).fallback_templates
    /\ ncalls' = ncalls + 1
    /\ UNCHANGED <<knowledge_cache, area_knowledge_cache, startup, now, served>>
    /\ StoreFrame

\* await reload_knowledge_base(area), area "" standing for None; what it
\* raises goes to its caller.
ReloadKnowledgeBase ==
    /\ op = "store"
    /\ Serving
    /\ ncalls < MaxCalls
    /\ \E a \in AreaArguments \cup {""} :
          SetCaches(reload_knowledge_base(a, disk, knowledge_cache, area_knowledge_cache,
                                          fallback_templates, now).caches)
    /\ ncalls' = ncalls + 1
    /\ UNCHANGED <<startup, now, served>>
    /\ StoreFrame

\* A second passes.
Tick ==
    /\ op = "store"
    /\ now < MaxClock
    /\ now' = now + 1
    /\ UNCHANGED <<knowledge_cache, area_knowledge_cache, fallback_templates,
                   startup, served, ncalls>>
    /\ StoreFrame

----------------------------------------------------------------------------
(* CoordinateMapper.scale_template_to_image on its own *)

MaxTemplatePoints == 2

\* Template points: offsets from the face centre in thousandths of the
\* assumed face size, within the face and far outside it; with and without
\* a label.
TemplatePoints ==
    { [label |-> "Upper Lip Center (Template)", x_offset |-> 0, y_offset |-> 100],
      [label |-> "Left High Malar (Template)", x_offset |-> -120, y_offset |-> -50],
      [label |-> "Right High Malar (Template)", x_offset |-> 120, y_offset |-> -50],
      [label |-> "Far right", x_offset |-> 2000, y_offset |-> 0],
      [label |-> "Far above", x_offset |-> 0, y_offset |-> -2000],
      [x_offset |-> -2000] }

TemplateLists ==
    UNION { [1..n -> TemplatePoints] : n \in 0..MaxTemplatePoints }

\* image_shape (height, width): from the smallest with room for the margin
\* upwards, one too small for it, and a colour image's three entries.
TemplateImageShapes ==
    { <<20, 20>>, <<500, 1000>>, <<480, 640>>, <<16, 30>>, <<400, 400, 3>> }

InitScale ==
    /\ op = "scale"
    /\ scale_input \in [template_points : TemplateLists, image_shape : TemplateImageShapes]
    /\ scaled_template = <<>>
    /\ NoValidatorInput
    /\ NoRulesInput
    /\ NoRequest
    /\ NoScoreInput
    /\ NoQualityInput
    /\ NoStore
    /\ ncalls = 0

ScaleTemplateToImage ==
    /\ op = "scale"
    /\ ncalls = 0
    /\ scaled_template' = scale_template_to_image(scale_input.template_points,
                                                  scale_input.image_shape)
    /\ ncalls' = 1
    /\ UNCHANGED <<op, scale_input>>
    /\ UNCHANGED validator_vars
    /\ UNCHANGED rules_vars
    /\ UNCHANGED handler_vars
    /\ UNCHANGED <<score_vars, qc_vars, store_vars>>

Init ==
    \/ InitValidator
    \/ InitFilter
    \/ InitPointRules
    \/ InitZoneRules
    \/ InitAnalyze
    \/ InitScore
    \/ InitRetry
    \/ InitStore
    \/ InitScale

Next ==
    \/ ValidateInjectionSafety
    \/ FilterOverlappingZones
    \/ ApplyInjectionPointRules
    \/ ApplyRiskZoneRules
    \/ AnalyzeRiskMap
    \/ CalculateConfidenceScore
    \/ ShouldRetry
    \/ StartupEvent
    \/ ServeRequest
    \/ LoadAreaKnowledge
    \/ LoadFallbackTemplates
    \/ ReloadKnowledgeBase
    \/ Tick
    \/ ScaleTemplateToImage

Spec == Init /\ [][Next]_vars

----------------------------------------------------------------------------
(* The Safety Validator: what the claims speak of *)

\* The clearance table as the specification states it.
StatedClearance(severity) ==
    CASE severity = "critical" -> 20
      [] severity = "high"     -> 15
      [] severity = "moderate" -> 8
      [] severity = "low"      -> 0
      [] OTHER                 -> 10

\* Position pos is closer to zone than the zone's stated clearance.
WithinClearance(pos, zone) ==
    _point_to_polygon_distance_lt(pos, zone.polygon, StatedClearance(zone.severity))

ViolatesSomeZone(pos) == \E i \in 1..Len(risk_zones) : WithinClearance(pos, risk_zones[i])

\* The spacing and the cap of the area, as the policy table states them.
StatedMinDistance ==
    CASE area = "cheeks" -> 8 [] area = "chin" -> 10 [] area = "forehead" -> 12 [] OTHER -> 5

StatedMaxPoints ==
    CASE area = "cheeks" -> 10 [] area = "chin" -> 6 [] area = "forehead" -> 8 [] OTHER -> 8

TooClose(l1, l2) ==
    _point_distance_sq(points[l1].position, points[l2].position) < Sq(StatedMinDistance)

\* The points of the last call that passed the spacing stage, before the cap.
PassedSpacing == accepted

IndexIn(lst, l) == CHOOSE i \in 1..Len(lst) : lst[i] = l

Returned == Range(validated_points)

\* The warnings the last call added to object l.
AddedWarnings(l) ==
    { points[l].warnings[i] : i \in (Len(before[l].warnings) + 1)..Len(points[l].warnings) }

Called == op = "validate" /\ ncalls > 0

\* Candidate number j of the last call violates a clearance and is at least
\* the minimum distance away from every point accepted before it.
UnsafeButSpaced(j) ==
    LET l == injection_points[j]
    IN  /\ ViolatesSomeZone(points[l].position)
        /\ \A e \in Range(PassedSpacing) :
              IndexIn(injection_points, e) < j => ~ TooClose(l, e)

\* C1: every returned point that is closer than the severity clearance to a
\* risk zone has at most half the confidence it was passed in with, and the
\* call added a warning that names that zone.
C1_DemotedAndWarned ==
    Called =>
      \A l \in Returned : \A i \in 1..Len(risk_zones) :
         WithinClearance(points[l].position, risk_zones[i]) =>
            /\ 2 * points[l].confidence <= before[l].confidence
            /\ \E w \in AddedWarnings(l) :
                  w.msg = "Too close to" /\ w.zone = risk_zones[i].name

C1_Witness ==
    /\ Called
    /\ \E l \in Returned : ViolatesSomeZone(points[l].position) /\ before[l].confidence > 0

\* C2: any two distinct returned points are at least min_point_distance
\* apart, and a candidate closer than that to a point accepted before it is
\* not returned.
C2_ReturnedPointsSpaced ==
    Called =>
      /\ \A l1, l2 \in Returned : l1 # l2 => ~ TooClose(l1, l2)
      /\ \A j \in 1..Len(injection_points) :
            (\E e \in Range(PassedSpacing) :
                /\ IndexIn(injection_points, e) < j
                /\ TooClose(injection_points[j], e))
            => injection_points[j] \notin Returned

C2_Witness ==
    /\ Called
    /\ Cardinality(Returned) >= 2
    /\ \E j \in 1..Len(injection_points) : \E e \in Returned :
          /\ IndexIn(injection_points, e) < j
          /\ TooClose(injection_points[j], e)
          /\ injection_points[j] \notin Returned

\* C3 as stated: a candidate that violates a clearance and is far enough from
\* every earlier-accepted point is in the returned list, for any number of
\* candidates.
C3_UnsafePointAlwaysReturned ==
    Called =>
      \A j \in 1..Len(injection_points) :
         UnsafeButSpaced(j) => injection_points[j] \in Returned

\* C3 as amended: such a candidate always passes the spacing stage, demoted
\* and warned; it is in the returned list whenever no more than max_points
\* candidates pass the spacing stage (beyond that the cap, which keeps the
\* highest confidences, may remove it).
C3_UnsafePointReturnedUnderCap ==
    Called =>
      \A j \in 1..Len(injection_points) :
         UnsafeButSpaced(j) =>
            LET l == injection_points[j]
            IN  /\ l \in Range(PassedSpacing)
                /\ 2 * points[l].confidence = before[l].confidence
                /\ AddedWarnings(l) # {}
                /\ Len(PassedSpacing) <= StatedMaxPoints => l \in Returned

C3_Witness ==
    /\ Called
    /\ Len(PassedSpacing) <= StatedMaxPoints
    /\ \E j \in 1..Len(injection_points) :
          /\ UnsafeButSpaced(j)
          /\ injection_points[j] \in Returned
          /\ Len(validated_points) < Len(injection_points)

\* C7: no more than max_points points are returned; when more pass the
\* spacing stage, exactly max_points are returned and every returned point
\* has a higher confidence than every point cut, or the same confidence and
\* an earlier place in the argument list.
C7_CapKeepsBest ==
    Called =>
      /\ Len(validated_points) <= StatedMaxPoints
      /\ Returned \subseteq Range(PassedSpacing)
      /\ Len(PassedSpacing) <= StatedMaxPoints => validated_points = PassedSpacing
      /\ Len(PassedSpacing) > StatedMaxPoints =>
            /\ Len(validated_points) = StatedMaxPoints
            /\ Cardinality(Returned) = StatedMaxPoints
            /\ \A k \in Returned : \A d \in Range(PassedSpacing) \ Returned :
                  \/ points[k].confidence > points[d].confidence
                  \/ /\ points[k].confidence = points[d].confidence
                     /\ IndexIn(injection_points, k) < IndexIn(injection_points, d)

\* The cap cut a point that has the confidence of a point it kept.
C7_Witness ==
    /\ Called
    /\ Len(PassedSpacing) > StatedMaxPoints
    /\ \E k \in Returned : \E d \in Range(PassedSpacing) \ Returned :
          points[k].confidence = points[d].confidence

\* C8: a call on the list the previous call returned, with the same zones and
\* area, returns the same points: none removed, none added, none moved.
C8_Idempotent ==
    (op = "validate" /\ ncalls >= 2) =>
      /\ Returned = Range(injection_points)
      /\ Len(validated_points) = Len(injection_points)
      /\ \A l \in Returned :
            /\ points[l].label = before[l].label
            /\ points[l].position = before[l].position

\* A second call, on the output of a first call that had removed candidates.
C8_Witness ==
    /\ op = "validate"
    /\ ncalls >= 2
    /\ Len(validated_points) >= 2
    /\ Len(validated_points) < Cardinality(DOMAIN points)
    /\ \E l \in Returned : ViolatesSomeZone(points[l].position)

----------------------------------------------------------------------------
(* Zone de-duplication: what the claims speak of *)

Filtered == op = "filter" /\ ncalls > 0

Kept == Range(filtered_zones)

\* The boxes of z1 and z2 intersect in more than half of the smaller box.
BoxesOverlap(z1, z2) ==
    LET b1 == _get_polygon_bbox(z1.polygon)
        b2 == _get_polygon_bbox(z2.polygon)
        w  == Min(b1.x + b1.width, b2.x + b2.width) - Max(b1.x, b2.x)
        h  == Min(b1.y + b1.height, b2.y + b2.height) - Max(b1.y, b2.y)
    IN  w > 0 /\ h > 0 /\ 2 * w * h > Min(b1.width * b1.height, b2.width * b2.height)

SeverityRank(z) ==
    CASE z.severity = "critical" -> 0 [] z.severity = "high" -> 1
      [] z.severity = "moderate" -> 2 [] OTHER -> 3

\* z1 is of higher severity than z2.
Higher(z1, z2) == SeverityRank(z1) < SeverityRank(z2)

\* C10 as stated: of two zones of different severity that overlap
\* significantly, the lower one is dropped and the higher one is kept, in
\* whichever order they stand in the input list.
C10_LowerDroppedHigherKept ==
    Filtered =>
      \A i, j \in 1..Len(risk_zones) :
         (Higher(risk_zones[i], risk_zones[j]) /\ BoxesOverlap(risk_zones[i], risk_zones[j]))
         => (risk_zones[j] \notin Kept /\ risk_zones[i] \in Kept)

\* C10 as amended: in whichever order they stand, the lower zone is dropped
\* whenever the higher one is kept; the higher one is dropped only if it
\* overlaps significantly a kept zone of equal or higher severity; a list of
\* just the two zones returns the higher one alone.
C10_LowerDroppedWhenHigherKept ==
    Filtered =>
      \A i, j \in 1..Len(risk_zones) :
         (Higher(risk_zones[i], risk_zones[j]) /\ BoxesOverlap(risk_zones[i], risk_zones[j]))
         => /\ risk_zones[i] \in Kept => risk_zones[j] \notin Kept
            /\ risk_zones[i] \notin Kept =>
                  \E k \in Kept : /\ ~ Higher(risk_zones[i], k)
                                  /\ BoxesOverlap(risk_zones[i], k)
            /\ Len(risk_zones) = 2 => filtered_zones = << risk_zones[i] >>

\* The lower zone stands first in the input list and is dropped.
C10_Witness ==
    /\ Filtered
    /\ \E i, j \in 1..Len(risk_zones) :
          /\ j < i
          /\ Higher(risk_zones[i], risk_zones[j])
          /\ BoxesOverlap(risk_zones[i], risk_zones[j])
          /\ risk_zones[i] \in Kept
          /\ risk_zones[j] \notin Kept

\* sub is lst with some entries left out, the others in their order.
IsSubList(sub, lst) ==
    \E f \in [1..Len(sub) -> 1..Len(lst)] :
        /\ \A k \in 1..Len(sub) : sub[k] = lst[f[k]]
        /\ \A k, l \in 1..Len(sub) : k < l => f[k] < f[l]

\* sub is lst with some entries left out, the others ordered by severity,
\* zones of one severity in their order in lst.
IsSubListBySeverity(sub, lst) ==
    \E f \in [1..Len(sub) -> 1..Len(lst)] :
        /\ \A k \in 1..Len(sub) : sub[k] = lst[f[k]]
        /\ \A k, l \in 1..Len(sub) : k < l =>
              \/ Higher(lst[f[k]], lst[f[l]])
              \/ (SeverityRank(lst[f[k]]) = SeverityRank(lst[f[l]]) /\ f[k] < f[l])

\* No two kept zones overlap significantly, and every dropped zone overlaps
\* significantly a kept zone of equal or higher severity.
KeptApartDroppedCovered ==
    /\ \A k, l \in 1..Len(filtered_zones) :
          k # l => ~ BoxesOverlap(filtered_zones[k], filtered_zones[l])
    /\ \A i \in 1..Len(risk_zones) :
          risk_zones[i] \notin Kept =>
             \E z \in Kept : ~ Higher(risk_zones[i], z) /\ BoxesOverlap(risk_zones[i], z)

\* The call before the last one returned the list the last one was given,
\* and the last one returned it unchanged.
SecondCallChangesNothing == ncalls >= 2 => filtered_zones = risk_zones

\* C21 as stated: the output of filter_overlapping_zones is a sub-list of
\* its input in which no two zones overlap significantly, every dropped zone
\* overlaps significantly a kept zone of equal or higher severity, and the
\* filter applied to its own output changes nothing.
C21_FilteredSubList ==
    Filtered =>
      /\ IsSubList(filtered_zones, risk_zones)
      /\ KeptApartDroppedCovered
      /\ SecondCallChangesNothing

\* C21 as amended: the output holds zones of the input, each once, ordered
\* by severity (critical first, zones of one severity in input order), and
\* is a sub-list of the input when that has at most one zone; the rest as
\* stated.
C21_FilteredBySeverity ==
    Filtered =>
      /\ IsSubListBySeverity(filtered_zones, risk_zones)
      /\ Len(risk_zones) <= 1 => filtered_zones = risk_zones
      /\ KeptApartDroppedCovered
      /\ SecondCallChangesNothing

\* Three zones, the critical one last: one is dropped, and the critical one
\* is returned first.
C21_Witness ==
    /\ Filtered
    /\ ncalls = 1
    /\ Len(risk_zones) = 3
    /\ Len(filtered_zones) = 2
    /\ risk_zones[3].severity = "critical"
    /\ risk_zones[1].severity = "low"
    /\ filtered_zones[1] = risk_zones[3]

----------------------------------------------------------------------------
\* Claims about the Rule Interpreter.

\* apply_injection_point_rules or apply_risk_zone_rules has returned or raised.
Applied == op \in {"point_rules", "zone_rules"} /\ ncalls = 1

\* The function that was called, on another list with the same face and shape.
SameCallOn(defs) ==
    IF op = "point_rules"
    THEN apply_injection_point_rules(defs, normalized_face, image_shape)
    ELSE apply_risk_zone_rules(defs, normalized_face, image_shape)

UnknownKind(d) == rule_type_of(d) \notin supported_rule_types

\* What the documents yield one by one, unknown kinds yielding nothing.
EachInOrder ==
    Flatten([i \in 1..Len(definitions) |->
                IF UnknownKind(definitions[i]) THEN <<>>
                ELSE SameCallOn(<<definitions[i]>>).results])

\* A document that is valid for the list it stands in and whose anchors all
\* resolve on the face: a supported kind of the right result type, enough
\* anchors, weights that do not cancel, and the metadata the result needs.
Resolvable(d) ==
    LET rule == Get(d, "rule", <<>>)
        kind == rule_type_of(d)
        anchors == Get(rule, "anchors", <<>>)
        weights == Get(rule, "anchor_weights", <<1>>)
    IN  /\ Len(anchors) > 0
        /\ \A i \in 1..Len(anchors) : anchors[i] \in DOMAIN pixel_landmarks(normalized_face)
        /\ IF op = "point_rules"
           THEN /\ kind \in {"landmark_vector_offset", "bone_point"}
                /\ SumSeq(weights) # 0
                /\ {"md_code", "id"} \subseteq DOMAIN d
           ELSE /\ kind \in supported_rule_types \ {"landmark_vector_offset", "bone_point"}
                /\ kind = "polyline_buffer_from_landmarks" => Len(anchors) >= 2
                /\ kind \in {"polygon_from_landmarks", "mask_from_landmark_loop"}
                      => Len(anchors) >= 3

OneUnknownOthersResolvable ==
    /\ Cardinality({i \in 1..Len(definitions) : UnknownKind(definitions[i])}) = 1
    /\ \A i \in 1..Len(definitions) :
          UnknownKind(definitions[i]) \/ Resolvable(definitions[i])

\* C5: a document of a kind outside the seven supported ones yields no
\* result and raises nothing (a call raises only on an image_shape that is
\* not a pair, whatever the documents); the other documents are evaluated
\* each as it would be alone, in list order; and a list with exactly one
\* unknown-kind document, all others valid and resolvable, returns one
\* result fewer than it has documents.
C5_UnknownKindSkipped ==
    Applied =>
      /\ produced.raised => Len(image_shape) # 2
      /\ \A i \in 1..Len(definitions) :
            UnknownKind(definitions[i]) => SameCallOn(<<definitions[i]>>).results = <<>>
      /\ produced.results = EachInOrder
      /\ (~ produced.raised /\ OneUnknownOthersResolvable)
            => Len(produced.results) = Len(definitions) - 1

\* An unknown-kind document stands between two resolvable ones, and both of
\* these came out.
C5_Witness ==
    /\ Applied
    /\ ~ produced.raised
    /\ Len(definitions) = 3
    /\ UnknownKind(definitions[2])
    /\ Resolvable(definitions[1])
    /\ Resolvable(definitions[3])
    /\ Len(produced.results) = 2

----------------------------------------------------------------------------
\* Claims about the analysis endpoint.

\* analyze_risk_map has answered the request.
Answered == op = "analyze" /\ ncalls = 1

\* The request's image decoded.
Decoded == request.image # None

LandmarkFailure == Decoded /\ ~ request.detection.success

NonFallbackResponse ==
    /\ Answered
    /\ response.kind = "RiskMapResponse"
    /\ ~ response.fallback_used

\* C4: when the landmark detector reports failure, for every supported area
\* the answer is a response, not an HTTP error, with fallback_used set, no
\* risk zones and a confidence_score of at most 0.3; and no response with
\* fallback_used set holds a risk zone.
C4_FallbackOnLandmarkFailure ==
    Answered =>
      /\ LandmarkFailure =>
            /\ response.kind = "RiskMapResponse"
            /\ response.fallback_used
            /\ response.risk_zones = <<>>
            /\ response.confidence_score <= 300
      /\ response.fallback_used => response.risk_zones = <<>>

\* A lips request whose detection failed has been answered from the
\* fallback path.
C4_Witness ==
    /\ Answered
    /\ LandmarkFailure
    /\ request.area = "lips"
    /\ response.kind = "RiskMapResponse"
    /\ response.fallback_used

\* C6 as stated: every request whose image decodes is answered by a
\* RiskMapResponse, never by an HTTP error; where a step failed the response
\* is flagged by fallback_used or a warning.
C6_AlwaysAResponse ==
    (Answered /\ Decoded) => response.kind = "RiskMapResponse"

\* C9 as stated: the risk zones of every non-fallback response have been
\* through the Safety Validator's de-duplication, so that no two of them
\* have bounding boxes intersecting in more than half of the smaller box.
C9_ZonesDeduplicated ==
    NonFallbackResponse =>
      /\ \E k \in 1..Len(calls) : calls[k] = "filter_overlapping_zones"
      /\ \A i, j \in 1..Len(response.risk_zones) :
            i # j => ~ BoxesOverlap(response.risk_zones[i], response.risk_zones[j])

\* A response of the fallback path.
FallbackResponse ==
    /\ Answered
    /\ response.kind = "RiskMapResponse"
    /\ response.fallback_used

\* C17 as stated: a fallback response has confidence_score 0.3 when it
\* returns template points, and otherwise 0.1 with no risk zones, no
\* injection points and at least one warning; no fallback response has
\* another confidence_score.
C17_FallbackConfidenceFixed ==
    FallbackResponse =>
      \/ /\ response.injection_points # <<>>
         /\ response.confidence_score = 300
      \/ /\ response.injection_points = <<>>
         /\ response.risk_zones = <<>>
         /\ response.warnings # <<>>
         /\ response.confidence_score = 100

----------------------------------------------------------------------------
\* Claims about the point-producing rules.

\* apply_injection_point_rules has returned.
PointsApplied == op = "point_rules" /\ ncalls = 1 /\ ~ produced.raised

\* The landmarks that have a name on the face given to the engine.
Detected == DOMAIN pixel_landmarks(normalized_face)

AnchorsOf(d) == Get(Get(d, "rule", <<>>), "anchors", <<>>)

WeightsOf(d) ==
    Get(Get(d, "rule", <<>>), "anchor_weights", [i \in 1..Len(AnchorsOf(d)) |-> 1])

OffsetOf(d) == Get(Get(d, "rule", <<>>), "offset_percent", [x |-> 0, y |-> 0])

IsOffsetDoc(d) == rule_type_of(d) = "landmark_vector_offset"

NoneResolves(d) == \A i \in 1..Len(AnchorsOf(d)) : AnchorsOf(d)[i] \notin Detected

AllResolve(d) ==
    /\ Len(AnchorsOf(d)) > 0
    /\ \A i \in 1..Len(AnchorsOf(d)) : AnchorsOf(d)[i] \in Detected

\* The injection points returned for document d (labels are unique in a list).
EmittedFor(d) ==
    { k \in 1..Len(produced.results) : produced.results[k].label = d.label }

\* C11 as stated: a landmark_vector_offset document none of whose anchors
\* resolves to a detected landmark yields no injection point.
C11_UnresolvedOffsetYieldsNone ==
    PointsApplied =>
      \A i \in 1..Len(definitions) :
         (IsOffsetDoc(definitions[i]) /\ NoneResolves(definitions[i]))
         => EmittedFor(definitions[i]) = {}

\* C12: a landmark_vector_offset document whose anchor_weights sum to 0
\* evaluates to None and yields no injection point, whichever of its
\* anchors resolve.
C12_ZeroWeightsYieldNone ==
    PointsApplied =>
      \A i \in 1..Len(definitions) :
         (IsOffsetDoc(definitions[i]) /\ SumSeq(WeightsOf(definitions[i])) = 0)
         => /\ EmittedFor(definitions[i]) = {}
            /\ _apply_landmark_vector_offset(
                    definitions[i].rule,
                    _create_rule_context(normalized_face, image_shape)) = None

\* A document whose weights cancel, one anchor resolved and one not, stood in
\* a list of which another document came out.
C12_Witness ==
    /\ PointsApplied
    /\ Len(produced.results) > 0
    /\ \E i \in 1..Len(definitions) :
          /\ IsOffsetDoc(definitions[i])
          /\ SumSeq(WeightsOf(definitions[i])) = 0
          /\ ~ NoneResolves(definitions[i])
          /\ ~ AllResolve(definitions[i])
          /\ EmittedFor(definitions[i]) = {}

----------------------------------------------------------------------------
\* Claims about the zone-producing rules.

\* apply_risk_zone_rules has returned.
ZonesApplied == op = "zone_rules" /\ ncalls = 1 /\ ~ produced.raised

\* What the rule of a supported document evaluates to on the face given.
RuleResult(d) ==
    apply_rule(rule_type_of(d), Get(d, "rule", <<>>),
               _create_rule_context(normalized_face, image_shape))

\* The zones returned for document d (names are unique in a list).
ZonesFor(d) ==
    { k \in 1..Len(produced.results) : produced.results[k].name = d.name }

\* C13: every returned RiskZone has a polygon of at least 3 vertices, and a
\* document whose rule result is a single point, is empty or has fewer than
\* 3 vertices yields no zone, whatever the rule kind and whichever anchors
\* resolve.
C13_ZonesHaveThreeVertices ==
    ZonesApplied =>
      /\ \A k \in 1..Len(produced.results) : Len(produced.results[k].polygon) >= 3
      /\ \A i \in 1..Len(definitions) :
            (/\ ~ UnknownKind(definitions[i])
             /\ \/ RuleResult(definitions[i]).kind # "list"
                \/ Len(RuleResult(definitions[i]).pts) < 3)
            => ZonesFor(definitions[i]) = {}

\* A document evaluating to a single point and one evaluating to None for
\* lack of resolved anchors stood beside one that gave a zone.
C13_Witness ==
    /\ ZonesApplied
    /\ Len(produced.results) > 0
    /\ \E i, j \in 1..Len(definitions) :
          /\ ~ UnknownKind(definitions[i])
          /\ RuleResult(definitions[i]).kind = "Point"
          /\ ~ UnknownKind(definitions[j])
          /\ RuleResult(definitions[j]).kind = "None"
          /\ ~ NoneResolves(definitions[j])

\* C14 as stated: every returned InjectionPoint lies within the analysed
\* image, 0 <= x <= width - 1 and 0 <= y <= height - 1, for both
\* point-producing rule kinds.
C14_PointsWithinImage ==
    PointsApplied =>
      \A k \in 1..Len(produced.results) :
         /\ 0 <= produced.results[k].position.x
         /\ produced.results[k].position.x <= image_shape[2] - 1
         /\ 0 <= produced.results[k].position.y
         /\ produced.results[k].position.y <= image_shape[1] - 1

\* sum(w_i * p_i) / sum(w_i) over the anchors of d, per coordinate.
CentroidOf(d) ==
    LET at(i) == pixel_landmarks(normalized_face)[AnchorsOf(d)[i]]
        w(i) == IF i <= Len(WeightsOf(d)) THEN WeightsOf(d)[i] ELSE 1
        n == Len(AnchorsOf(d))
    IN  Point(SumSeq([i \in 1..n |-> w(i) * at(i).x]) \div SumSeq(WeightsOf(d)),
              SumSeq([i \in 1..n |-> w(i) * at(i).y]) \div SumSeq(WeightsOf(d)))

\* The centroid plus the offset in parts of the face box, kept within the
\* image.
StatedPosition(d) ==
    LET bbox == normalized_face.face_bbox
        x == CentroidOf(d).x + (OffsetOf(d).x * bbox.width) \div 1000
        y == CentroidOf(d).y + (OffsetOf(d).y * bbox.height) \div 1000
        Within(v, size) == IF v < 0 THEN 0 ELSE IF v > size - 1 THEN size - 1 ELSE v
    IN  Point(Within(x, image_shape[2]), Within(y, image_shape[1]))

\* C18: a landmark_vector_offset document whose anchors all resolve yields
\* one point, at the weighted centroid of the anchors plus offset_percent
\* times the face box size, clamped to the image.
C18_WeightedCentroidPlusOffset ==
    PointsApplied =>
      \A i \in 1..Len(definitions) :
         (/\ IsOffsetDoc(definitions[i])
          /\ AllResolve(definitions[i])
          /\ SumSeq(WeightsOf(definitions[i])) # 0)
         => /\ Cardinality(EmittedFor(definitions[i])) = 1
            /\ \A k \in EmittedFor(definitions[i]) :
                  produced.results[k].position = StatedPosition(definitions[i])

\* The anchors (120,180) and (280,180), equal weights, offset {x: 0, y: 0.1}
\* and the face box {100, 100, 200, 200} gave (200, 200), and a document
\* with unequal weights came out too.
C18_Witness ==
    /\ PointsApplied
    /\ normalized_face.face_bbox = [x |-> 100, y |-> 100, width |-> 200, height |-> 200]
    /\ \E i, j \in 1..Len(definitions) :
          /\ IsOffsetDoc(definitions[i])
          /\ AnchorsOf(definitions[i]) = <<"left_mouth_corner", "right_mouth_corner">>
          /\ AllResolve(definitions[i])
          /\ pixel_landmarks(normalized_face)["left_mouth_corner"] = Point(120, 180)
          /\ pixel_landmarks(normalized_face)["right_mouth_corner"] = Point(280, 180)
          /\ WeightsOf(definitions[i]) = <<1, 1>>
          /\ OffsetOf(definitions[i]) = [x |-> 0, y |-> 100]
          /\ \E k \in EmittedFor(definitions[i]) :
                produced.results[k].position = Point(200, 200)
          /\ WeightsOf(definitions[j]) = <<3, 1>>
          /\ \E k \in EmittedFor(definitions[j]) :
                produced.results[k].position = Point(150, 180)

----------------------------------------------------------------------------
\* Claims about the confidence score.

\* clamp(0.5*d + 0.3*n + 0.2*min(1, (p+z)/8), 0.1, 1.0), in thousandths
StatedScore(d, n, p, z) ==
    LET completeness == IF p + z >= 8 THEN 1000 ELSE 125 * (p + z)
        sum == (5 * d + 3 * n + 2 * completeness) \div 10
    IN  IF sum < 100 THEN 100 ELSE IF sum > 1000 THEN 1000 ELSE sum

\* Both confidences of the scored analysis are there to read.
ConfidencesGiven ==
    /\ HasAttr(scored_analysis.landmarks_result, "confidence")
    /\ HasAttr(scored_analysis.normalized_face, "confidence")

ReturnedCount(c) == c.num_injection_points + c.num_risk_zones

\* C19: _calculate_confidence_score returns
\* clamp(0.5*d + 0.3*n + 0.2*min(1, (p+z)/8), 0.1, 1.0); every score it
\* returns, and the confidence_score of every non-fallback response, lies in
\* [0.1, 1.0]; and of two scores of one analysis the one for the larger p+z
\* is not the smaller one.
C19_ConfidenceScoreFormula ==
    /\ op = "score" =>
          /\ \A k \in 1..Len(confidence_scores) :
                /\ confidence_scores[k].score \in 100..1000
                /\ ConfidencesGiven =>
                      confidence_scores[k].score =
                          StatedScore(scored_analysis.landmarks_result.confidence,
                                      scored_analysis.normalized_face.confidence,
                                      confidence_scores[k].num_injection_points,
                                      confidence_scores[k].num_risk_zones)
          /\ \A j, k \in 1..Len(confidence_scores) :
                ReturnedCount(confidence_scores[j]) <= ReturnedCount(confidence_scores[k])
                    => confidence_scores[j].score <= confidence_scores[k].score
    /\ NonFallbackResponse => response.confidence_score \in 100..1000

\* One analysis has been scored for 5 and for 10 returned items, beyond the
\* cap of the completeness factor, and the second score is the larger.
C19_Witness ==
    /\ op = "score"
    /\ ConfidencesGiven
    /\ Len(confidence_scores) = 2
    /\ ReturnedCount(confidence_scores[1]) = 5
    /\ ReturnedCount(confidence_scores[2]) = 10
    /\ confidence_scores[1].score < confidence_scores[2].score
    /\ confidence_scores[2].score < 1000

----------------------------------------------------------------------------
\* Claims about the quality controller.

\* C20: should_retry returns (True, the identity reason) whenever id_warning
\* is set; otherwise (True, the off-target reason) whenever ssim_warning is
\* set; otherwise True exactly when brisque_degradation > 20; otherwise
\* (False, "Quality checks passed").
C20_RetryPriority ==
    (op = "retry" /\ ncalls = 1) =>
        IF qc_results.id_warning
        THEN retry_decision = <<TRUE, "Identity similarity too low">>
        ELSE IF qc_results.ssim_warning
        THEN retry_decision = <<TRUE, "Off-target changes detected">>
        ELSE /\ retry_decision[1] = (qc_results.brisque_degradation > 200)
             /\ ~ retry_decision[1] => retry_decision[2] = "Quality checks passed"

\* Both warnings set and a large degradation: identity decides.
C20_Witness ==
    /\ op = "retry"
    /\ ncalls = 1
    /\ qc_results.id_warning
    /\ qc_results.ssim_warning
    /\ qc_results.brisque_degradation = 350
    /\ retry_decision[2] = "Identity similarity too low"

----------------------------------------------------------------------------
\* Claims about the Knowledge Store.

\* warm_up has completed at startup.
WarmedUp == op = "store" /\ startup = "warmed"

\* C15 as stated: once warm_up has completed, no step changes
\* area_knowledge_cache, whether a request or one of load_area_knowledge,
\* load_fallback_templates and reload_knowledge_base.
C15_StoreReadOnlyAfterWarmUp ==
    [][WarmedUp => area_knowledge_cache' = area_knowledge_cache]_vars

\* Some area's rule directory or one of its two rule files is missing or
\* does not load.
StoreUnloadable ==
    /\ op = "store"
    /\ \E a \in Range(supported_areas) :
          \/ ~ disk.areas[a].exists
          \/ disk.areas[a].injection_points.state # "ok"
          \/ disk.areas[a].risk_zones.state # "ok"

\* C16 as stated: when warm_up raised, or an area's rules cannot be loaded,
\* startup does not get to serving and no analysis request is served.
C16_StartupAbortsOnLoadFailure ==
    (startup = "warm_up_failed" \/ StoreUnloadable) => (~ Serving /\ served = 0)

----------------------------------------------------------------------------
\* Claims about the fallback templates.

\* The area has no authored fallback template file.
NoAuthoredTemplate(a) == disk.areas[a].fallback_template.state = "missing"

\* C22 as stated: for each supported area without an authored template
\* file, load_fallback_templates returns a template with at least one point;
\* and a request for a supported area whose landmark detection failed is
\* answered with at least one injection point.
C22_BuiltInTemplateServed ==
    /\ (op = "store" /\ Serving) =>
          \A a \in Range(supported_areas) :
             NoAuthoredTemplate(a) =>
                LET template == load_fallback_templates(a, disk, fallback_templates).value
                IN  template # None /\ template.injection_points # <<>>
    /\ (Answered /\ LandmarkFailure) =>
          /\ response.kind = "RiskMapResponse"
          /\ response.injection_points # <<>>

----------------------------------------------------------------------------
\* Claims about the shapes of the zone rules.

IsCircleDoc(d) == rule_type_of(d) = "circle_around_landmark"

\* The circle centres of document d: its resolved anchors, and for each of
\* them that is a 'left' anchor of a bilateral rule its resolved right-side
\* counterpart.
CircleCentres(d) ==
    LET bilateral == Get(Get(d, "rule", <<>>), "bilateral", FALSE)
        own == { i \in 1..Len(AnchorsOf(d)) : AnchorsOf(d)[i] \in Detected }
        mirrored == { i \in own :
                        /\ bilateral
                        /\ AnchorsOf(d)[i] \in DOMAIN right_anchor_name
                        /\ right_anchor_name[AnchorsOf(d)[i]] \in Detected }
    IN  Cardinality(own) + Cardinality(mirrored)

\* C23 as stated, in its counts: a circle_around_landmark document with k
\* circle centres yields k polygons, and every polygon of this rule kind has
\* exactly 16 vertices.
C23_CirclesOfSixteenVertices ==
    ZonesApplied =>
      \A i \in 1..Len(definitions) :
         IsCircleDoc(definitions[i]) =>
            /\ Cardinality(ZonesFor(definitions[i])) = CircleCentres(definitions[i])
            /\ \A k \in ZonesFor(definitions[i]) : Len(produced.results[k].polygon) = 16

IsEllipseDoc(d) == rule_type_of(d) = "ellipse_around_landmarks"

\* The anchors of d that resolve, as indices.
ResolvedAnchors(d) == { i \in 1..Len(AnchorsOf(d)) : AnchorsOf(d)[i] \in Detected }

\* The arithmetic mean of the resolved anchors of d.
MeanOfResolved(d) ==
    LET at(i) == pixel_landmarks(normalized_face)[AnchorsOf(d)[i]]
        RECURSIVE sum_x(_), sum_y(_)
        sum_x(S) == IF S = {} THEN 0
                    ELSE LET i == CHOOSE j \in S : TRUE IN at(i).x + sum_x(S \ {i})
        sum_y(S) == IF S = {} THEN 0
                    ELSE LET i == CHOOSE j \in S : TRUE IN at(i).y + sum_y(S \ {i})
    IN  Point(sum_x(ResolvedAnchors(d)) \div Cardinality(ResolvedAnchors(d)),
              sum_y(ResolvedAnchors(d)) \div Cardinality(ResolvedAnchors(d)))

\* C24 as stated: an ellipse_around_landmarks document none of whose anchors
\* resolves yields no polygon; otherwise it yields one polygon of 16
\* vertices whose first vertex lies width/2 to the right of the mean of the
\* anchors that resolve.
C24_EllipseAboutResolvedMean ==
    ZonesApplied =>
      \A i \in 1..Len(definitions) :
         IsEllipseDoc(definitions[i]) =>
            IF ResolvedAnchors(definitions[i]) = {}
            THEN ZonesFor(definitions[i]) = {}
            ELSE \A k \in ZonesFor(definitions[i]) :
                    /\ Len(produced.results[k].polygon) = 16
                    /\ produced.results[k].polygon[1] =
                          Point(MeanOfResolved(definitions[i]).x
                                    + Get(definitions[i].rule, "width", 20) \div 2,
                                MeanOfResolved(definitions[i]).y)

IsStraightPolylineDoc(d) ==
    /\ rule_type_of(d) = "polyline_buffer_from_landmarks"
    /\ Get(Get(d, "rule", <<>>), "shape", "straight_line") # "curved_polyline"

\* The polyline of d: the points of its anchors that resolve, in order.
PolylineOf(d) ==
    LET resolves(name) == name \in Detected
        names == SelectSeq(AnchorsOf(d), resolves)
    IN  [i \in 1..Len(names) |-> pixel_landmarks(normalized_face)[names[i]]]

\* The polyline has a direction at its i-th point: towards the next point
\* at the first, from the previous at the last, their mean in between.
HasDirectionAt(line, i) ==
    IF i = 1 THEN line[2] # line[1]
    ELSE IF i = Len(line) THEN line[i] # line[i - 1]
    ELSE line[i + 1] # line[i - 1]

\* A vector along the polyline at its i-th point.
DirectionAt(line, i) ==
    LET from == IF i = 1 THEN line[1] ELSE line[i - 1]
        to == IF i = Len(line) THEN line[i] ELSE line[i + 1]
    IN  Point(to.x - from.x, to.y - from.y)

Abs(n) == IF n < 0 THEN 0 - n ELSE n

\* q1 and q2 lie opposite each other about p, each reach away from it at a
\* right angle to the direction dir (whole pixels, each coordinate rounded
\* down, so all up to one pixel per coordinate).
OppositeAbout(p, dir, q1, q2, reach) ==
    /\ q1.x + q2.x \in {2 * p.x - 1, 2 * p.x}
    /\ q1.y + q2.y \in {2 * p.y - 1, 2 * p.y}
    /\ Sq(q1.x - p.x) + Sq(q1.y - p.y) <= Sq(reach + 1)
    /\ Sq(q1.x - p.x) + Sq(q1.y - p.y) >= Sq(reach - 2)
    /\ Abs((q1.x - p.x) * dir.x + (q1.y - p.y) * dir.y) <= Abs(dir.x) + Abs(dir.y)
    /\ q1 # q2

\* The polygon is the ribbon around the points `at` of the line: these
\* points offset to one side in order, then to the other side in reverse.
IsRibbon(polygon, line, at, reach) ==
    /\ Len(polygon) = 2 * Len(at)
    /\ \A k \in 1..Len(at) :
          OppositeAbout(line[at[k]], DirectionAt(line, at[k]),
                        polygon[k], polygon[2 * Len(at) + 1 - k], reach)

\* C25 as stated: a straight polyline_buffer_from_landmarks document with
\* n >= 2 resolved anchors yields the ribbon of exactly 2n vertices around
\* its n points; with fewer than 2 resolved anchors it yields nothing.
C25_RibbonOfTwiceTheAnchors ==
    ZonesApplied =>
      \A i \in 1..Len(definitions) :
         IsStraightPolylineDoc(definitions[i]) =>
            LET line == PolylineOf(definitions[i])
            IN  IF Len(line) < 2 THEN ZonesFor(definitions[i]) = {}
                ELSE /\ ZonesFor(definitions[i]) # {}
                     /\ \A k \in ZonesFor(definitions[i]) :
                           IsRibbon(produced.results[k].polygon, line,
                                    [j \in 1..Len(line) |-> j],
                                    Get(definitions[i].rule, "buffer_px", 5))

\* C25 as amended: the ribbon runs around those of the n points at which the
\* polyline has a direction, 2m vertices for m such points, which is 2n
\* when consecutive points differ and no point's neighbours coincide.
C25_RibbonOfDirectedPoints ==
    ZonesApplied =>
      \A i \in 1..Len(definitions) :
         IsStraightPolylineDoc(definitions[i]) =>
            LET line == PolylineOf(definitions[i])
                directed(j) == HasDirectionAt(line, j)
                at == SelectSeq([j \in 1..Len(line) |-> j], directed)
            IN  IF Len(line) < 2 \/ 2 * Len(at) < 3 THEN ZonesFor(definitions[i]) = {}
                ELSE /\ ZonesFor(definitions[i]) # {}
                     /\ \A k \in ZonesFor(definitions[i]) :
                           IsRibbon(produced.results[k].polygon, line, at,
                                    Get(definitions[i].rule, "buffer_px", 5))

\* A polyline of three resolved anchors that comes back to its first point
\* has given a ribbon of four vertices, beside one of three anchors that
\* gave six.
C25_Witness ==
    /\ ZonesApplied
    /\ \E i, j \in 1..Len(definitions) :
          /\ IsStraightPolylineDoc(definitions[i])
          /\ IsStraightPolylineDoc(definitions[j])
          /\ Len(PolylineOf(definitions[i])) = 3
          /\ Len(PolylineOf(definitions[j])) = 3
          /\ \E k \in ZonesFor(definitions[i]) : Len(produced.results[k].polygon) = 4
          /\ \E k \in ZonesFor(definitions[j]) : Len(produced.results[k].polygon) = 6

----------------------------------------------------------------------------
\* Claims about the template scaling.

Scaled == op = "scale" /\ ncalls = 1 /\ ~ scaled_template.raised

TemplateHeight == scale_input.image_shape[1]
TemplateWidth == scale_input.image_shape[2]

\* (w//2 + x_offset*0.3*w, h//2 + y_offset*0.4*h) for the k-th template point
StatedTemplatePosition(k) ==
    LET t == scale_input.template_points[k]
        x_offset == IF "x_offset" \in DOMAIN t THEN t.x_offset ELSE 0
        y_offset == IF "y_offset" \in DOMAIN t THEN t.y_offset ELSE 0
    IN  Point(TemplateWidth \div 2 + (3 * x_offset * TemplateWidth) \div 10000,
              TemplateHeight \div 2 + (4 * y_offset * TemplateHeight) \div 10000)

WithinMargin(pos) ==
    /\ 10 <= pos.x /\ pos.x <= TemplateWidth - 10
    /\ 10 <= pos.y /\ pos.y <= TemplateHeight - 10

RequiresVerification(warning) ==
    warning = "Template-based positioning - verification required"

\* C26: for an image at least 20 wide and 20 high, every point returned by
\* scale_template_to_image lies at least 10 pixels from each edge, is the
\* stated position whenever that lies there already, has confidence 0.3 and
\* carries a warning requiring verification.
C26_TemplatePointsWithinMargin ==
    (Scaled /\ TemplateWidth >= 20 /\ TemplateHeight >= 20) =>
       \A k \in 1..Len(scaled_template.results) :
          LET point == scaled_template.results[k]
          IN  /\ WithinMargin(point.position)
              /\ WithinMargin(StatedTemplatePosition(k)) =>
                    point.position = StatedTemplatePosition(k)
              /\ point.confidence = 300
              /\ \E i \in 1..Len(point.warnings) : RequiresVerification(point.warnings[i])

\* Of two returned points one stands where the template puts it and the
\* other was brought back to the right-hand margin.
C26_Witness ==
    /\ Scaled
    /\ scale_input.image_shape = <<500, 1000>>
    /\ Len(scaled_template.results) = 2
    /\ scaled_template.results[1].position = Point(464, 240)
    /\ StatedTemplatePosition(1) = Point(464, 240)
    /\ StatedTemplatePosition(2).x > TemplateWidth - 10
    /\ scaled_template.results[2].position.x = TemplateWidth - 10

----------------------------------------------------------------------------
(* The Safety Validator: the clearance is a distance to the boundary *)

\* Some edge of the polygon (consecutive vertices, the last joined to the
\* first) is nearer to pos than reach.
EdgeNearerThan(pos, polygon, reach) ==
    \E i \in 1..Len(polygon) :
        LET d == _point_to_line_segment_distance_sq(pos, polygon[i],
                                                    polygon[(i % Len(polygon)) + 1])
        IN  d.num < Sq(reach) * d.den

\* The last call flagged object l for the zone: it added a warning that
\* names it.
FlaggedFor(l, zone) ==
    \E w \in AddedWarnings(l) : w.msg = "Too close to" /\ w.zone = zone.name

FlaggedAtAll(l) == \E i \in 1..Len(risk_zones) : FlaggedFor(l, risk_zones[i])

\* pos is strictly inside the box of a rectangular zone.
StrictlyInside(pos, polygon) ==
    LET b == _get_polygon_bbox(polygon)
    IN  /\ b.x < pos.x /\ pos.x < b.x + b.width
        /\ b.y < pos.y /\ pos.y < b.y + b.height

\* C27: a candidate of the call is flagged for a zone exactly when the zone
\* has at least 3 vertices and one of its edges is nearer than the severity
\* clearance; it is never flagged for a low zone or a zone of fewer than 3
\* vertices, and a candidate flagged for no zone, wherever it lies, keeps its
\* confidence and its warnings.
C27_ClearanceIsBoundaryDistance ==
    Called =>
      \A l \in Range(injection_points) :
         /\ \A i \in 1..Len(risk_zones) :
               LET zone == risk_zones[i]
               IN  /\ FlaggedFor(l, zone) <=>
                         /\ Len(zone.polygon) >= 3
                         /\ EdgeNearerThan(points[l].position, zone.polygon,
                                           StatedClearance(zone.severity))
                   /\ zone.severity = "low" => ~ FlaggedFor(l, zone)
                   /\ Len(zone.polygon) < 3 => ~ FlaggedFor(l, zone)
         /\ FlaggedAtAll(l) <=> 2 * points[l].confidence = before[l].confidence
         /\ ~ FlaggedAtAll(l) => points[l] = before[l]

\* A candidate strictly inside a critical zone, on an edge of a low zone and
\* on the segment of a two-vertex zone came back as it went in.
C27_Witness ==
    /\ Called
    /\ \E l \in Returned :
          /\ \E i \in 1..Len(risk_zones) :
                /\ risk_zones[i].severity = "critical"
                /\ StrictlyInside(points[l].position, risk_zones[i].polygon)
          /\ \E i \in 1..Len(risk_zones) :
                /\ risk_zones[i].severity = "low"
                /\ EdgeNearerThan(points[l].position, risk_zones[i].polygon, 1)
          /\ \E i \in 1..Len(risk_zones) :
                /\ Len(risk_zones[i].polygon) = 2
                /\ EdgeNearerThan(points[l].position, risk_zones[i].polygon, 1)
          /\ points[l] = before[l]
          /\ before[l].confidence > 0

----------------------------------------------------------------------------
(* The endpoint: the zones the candidates are validated against *)

\* The request asks for no risk zones.
ZonesOff == op = "analyze" /\ ~ request.modes.risk_zones

\* A clearance warning of validate_injection_safety.
IsClearanceWarning(w) == "msg" \in DOMAIN w /\ w.msg = "Too close to"

\* C28: a request with modes.risk_zones false whose image decodes and whose
\* landmarks are found generates no zone: when it asks for no injection
\* points either, validate_injection_safety is called and the response holds
\* no zone and no point; any response to such a request holds no zone and no
\* point with a clearance warning; and validate_injection_safety, called with
\* an empty zone list, leaves the confidence and the warnings of every point
\* as they were.
C28_NoZonesNoDemotion ==
    /\ (Answered /\ ZonesOff /\ response.kind = "RiskMapResponse") =>
          /\ response.risk_zones = <<>>
          /\ \A i \in 1..Len(response.injection_points) :
                \A j \in 1..Len(response.injection_points[i].warnings) :
                   ~ IsClearanceWarning(response.injection_points[i].warnings[j])
    /\ (Answered /\ ZonesOff /\ ~ request.modes.injection_points
            /\ Decoded /\ request.detection.success) =>
          /\ calls = <<"validate_injection_safety">>
          /\ NonFallbackResponse
          /\ response.injection_points = <<>>
    /\ (Called /\ risk_zones = <<>>) =>
          \A l \in DOMAIN points : points[l] = before[l]

\* A request for no risk zones was answered after a call of
\* validate_injection_safety.
C28_Witness ==
    /\ Answered
    /\ ZonesOff
    /\ Decoded
    /\ calls = <<"validate_injection_safety">>
    /\ NonFallbackResponse
    /\ response.risk_zones = <<>>

----------------------------------------------------------------------------
(* The Safety Validator: demotion in place, once per call *)

\* The zones whose clearance the position of object l violates.
ZonesViolated(l) ==
    { i \in 1..Len(risk_zones) :
        /\ Len(risk_zones[i].polygon) >= 3
        /\ EdgeNearerThan(points[l].position, risk_zones[i].polygon,
                          StatedClearance(risk_zones[i].severity)) }

\* The confidences and the number of warnings the candidates start with.
AuthoredConfidences == { c.confidence : c \in SlotChoices }

AuthoredWarnings(l) == IF l = Labels[1] THEN 1 ELSE 0

\* C29: after n calls, each on the same objects and zones, an object of the
\* last call's list that violates k >= 1 zones has half the confidence it had
\* before the call and k warnings more, which is its first confidence times
\* 0.5^n and n*k warnings more than it started with; an object that violates
\* no zone, or is not in the list, is as it was before the call.
C29_DemotedOncePerCall ==
    Called =>
      /\ \A l \in Range(injection_points) :
            LET k == Cardinality(ZonesViolated(l))
            IN  /\ k >= 1 =>
                      /\ 2 * points[l].confidence = before[l].confidence
                      /\ Len(points[l].warnings) = Len(before[l].warnings) + k
                      /\ (2 ^ ncalls) * points[l].confidence \in AuthoredConfidences
                      /\ Len(points[l].warnings) = AuthoredWarnings(l) + ncalls * k
                      /\ points[l].position = before[l].position
                      /\ points[l].label = before[l].label
                /\ k = 0 =>
                      /\ points[l] = before[l]
                      /\ points[l].confidence \in AuthoredConfidences
                      /\ Len(points[l].warnings) = AuthoredWarnings(l)
      /\ \A l \in DOMAIN points \ Range(injection_points) : points[l] = before[l]

\* A second call demoted again an object that violates two zones, and left
\* alone an object that violates none.
C29_Witness ==
    /\ Called
    /\ ncalls >= 2
    /\ \E l \in Range(injection_points) :
          /\ Cardinality(ZonesViolated(l)) = 2
          /\ before[l].confidence > points[l].confidence
          /\ l \in Returned
    /\ \E l \in Range(injection_points) : ZonesViolated(l) = {}

----------------------------------------------------------------------------
(* The policy tables: an area or a severity they do not have *)

TableAreas == {"lips", "cheeks", "chin", "forehead"}

TableSeverities == {"low", "moderate", "high", "critical"}

\* Objects l1 and l2 are nearer to each other than reach.
NearerThan(l1, l2, reach) ==
    _point_distance_sq(points[l1].position, points[l2].position) < Sq(reach)

\* Place a of the filtered list holds a zone of a severity the table has not,
\* place b a zone of a severity it has.
UnknownBeforeKnown(a, b) ==
    /\ a < b
    /\ filtered_zones[a].severity \notin TableSeverities
    /\ filtered_zones[b].severity \in TableSeverities

\* C30: for an area the policy table does not have, the call returns at most
\* 8 points and accepts a candidate exactly when no candidate accepted before
\* it is nearer than 5 px; a zone of a severity the table does not have flags
\* exactly the candidates nearer than 10 px to one of its edges; the call
\* adds no warning but the clearance warnings of the zones violated; and in
\* the filtered list no zone of such a severity stands before a zone of
\* critical, high or moderate severity, and it stands before a low zone only
\* if it did so in the input.
C30_SilentDefaults ==
    /\ (Called /\ area \notin TableAreas) =>
          /\ Len(validated_points) <= 8
          /\ Len(PassedSpacing) <= 8 => validated_points = PassedSpacing
          /\ \A j \in 1..Len(injection_points) :
                injection_points[j] \in Range(PassedSpacing) <=>
                   \A e \in Range(PassedSpacing) :
                      IndexIn(injection_points, e) < j =>
                         ~ NearerThan(injection_points[j], e, 5)
    /\ Called =>
          \A l \in Range(injection_points) :
             /\ \A i \in 1..Len(risk_zones) :
                   risk_zones[i].severity \notin TableSeverities =>
                      (FlaggedFor(l, risk_zones[i]) <=>
                         /\ Len(risk_zones[i].polygon) >= 3
                         /\ EdgeNearerThan(points[l].position, risk_zones[i].polygon, 10))
             /\ Len(points[l].warnings) =
                   Len(before[l].warnings) + Cardinality(ZonesViolated(l))
             /\ \A w \in AddedWarnings(l) : w.msg = "Too close to"
    /\ Filtered =>
          \A a, b \in 1..Len(filtered_zones) :
             UnknownBeforeKnown(a, b) =>
                /\ filtered_zones[b].severity = "low"
                /\ \E i, j \in 1..Len(risk_zones) :
                      /\ i < j
                      /\ risk_zones[i] = filtered_zones[a]
                      /\ risk_zones[j] = filtered_zones[b]

\* For an area the table has not, seven candidates came back, two of them
\* 6 px apart, one flagged by a zone of a severity the table has not and
\* one, between 10 and 15 px from that zone, not flagged.
C30_Witness ==
    /\ Called
    /\ area \notin TableAreas
    /\ Len(validated_points) = 7
    /\ \E l1, l2 \in Returned : l1 # l2 /\ NearerThan(l1, l2, 8)
    /\ \E i \in 1..Len(risk_zones) :
          /\ risk_zones[i].severity \notin TableSeverities
          /\ \E l \in Returned : FlaggedFor(l, risk_zones[i])
          /\ \E l \in Returned :
                /\ ~ FlaggedFor(l, risk_zones[i])
                /\ EdgeNearerThan(points[l].position, risk_zones[i].polygon, 15)

====
